---- MODULE Spec2Model ----
(***************************************************************************)
(* Storage abstraction layer of KBAI: vector, attachment and content       *)
(* stores with an embedded file backend and a relational backend.          *)
(*   src/app/storage_interfaces.py, src/app/db_interfaces.py               *)
(***************************************************************************)
EXTENDS Integers, Sequences, FiniteSets, TLC

VARIABLES
    backend,      \* the backend the factory selected at construction
    embFile,      \* LocalVectorStorage: project -> list held by <project>/vectors/embeddings.json
    vecTable,     \* PostgreSQL table vector_embeddings: rows in insertion order
    vecSerial,    \* last value of the SERIAL id of vector_embeddings
    contentFiles, \* LocalAttachmentStorage: project -> content files of <project>/attachments, name -> bytes
    metaFile,     \* LocalAttachmentStorage: project -> <project>/attachments/metadata.json, an ordered dict
    attTable,     \* PostgreSQL table attachments: rows in insertion order
    attSerial,    \* last value of the SERIAL id of attachments
    issued,       \* history: what store_file returned and was not deleted since, by file id
    family,       \* the store family of the instance the caller obtained
    uuidCtr,      \* number of uuid4 values drawn so far
    last,         \* the call that ended last: operation, arguments, result, exception raised
    ops,          \* number of calls made so far
    pc,           \* position of each concurrent caller inside its call
    loc,          \* local variables of each concurrent caller
    faqs,         \* PostgreSQL table faqs: rows in insertion order
    kb_articles,  \* PostgreSQL table kb_articles: rows in insertion order
    clock,        \* CURRENT_TIMESTAMP of the database, one tick per statement
    sessions,     \* audit store: table sessions, rows in insertion order
    traces,       \* audit store: table traces, rows in insertion order
    lockOwner,    \* connection provider: the caller that holds self._lock, or "none"
    checkedOut,   \* connection provider: callers holding a connection taken from the pool
    metaColumn,   \* audit store: the traces table has a metadata column (set by the schema)
    provRows,     \* connection provider: the committed rows of the table the callers write
    environ,      \* os.environ: the configuration variables the factories read
    engines,      \* the database engines that accept a connection at this moment
    instances,    \* the provider and storage instances the constructors have returned
    projects,     \* PostgreSQL table projects: rows in insertion order
    pending       \* connection provider: rows the pooled connection wrote in its open transaction

vars == <<backend, family, embFile, vecTable, vecSerial, contentFiles, metaFile,
          attTable, attSerial, issued, uuidCtr, last, ops, pc, loc,
          faqs, kb_articles, clock, sessions, traces, lockOwner, checkedOut, provRows,
          metaColumn, environ, engines, instances, projects, pending>>

vecVars == <<embFile, vecTable, vecSerial>>
attVars == <<contentFiles, metaFile, attTable, attSerial, issued>>
conVars == <<pc, loc>>
cntVars == <<faqs, kb_articles, clock, projects>>
audVars == <<sessions, traces, metaColumn>>
prvVars == <<lockOwner, checkedOut, provRows, pending>>
depVars == <<environ, engines, instances>>

(***************************************************************************)
(* Bounds and input domains                                                *)
(***************************************************************************)
MaxOps == 3

Projects     == {"p1", "p2"}
\* project ids a caller may pass: the two projects, and ids with separators
ProjectIds   == Projects \cup {"p1/.", "p2/../p1"}
ContentTypes == {"doc", "faq"}
ContentIds   == {"d1", "d2"}
Callers      == {"c1", "c2"}

\* natural keys the callers use
Keys == { <<"p1", "doc", "d1">>, <<"p1", "doc", "d2">>,
          <<"p1", "faq", "d1">>, <<"p2", "doc", "d1">> }

\* Python None, and Python dicts as sets of <<key, value>> pairs
None     == [none |-> TRUE,  items |-> {}]
Dict(kv) == [none |-> FALSE, items |-> kv]

Vectors == { <<1, 0, 0>>, <<0, 1, 0>>, <<1, 1, 0>>, <<0, 0, 0>> }

\* (title, content, embedding, metadata) arguments of store_embedding
Payloads ==
    { [title |-> "T1", content |-> "text one", embedding |-> <<1, 0, 0>>,
       metadata |-> Dict({<<"source", "test">>})],
      [title |-> "T2", content |-> "text two", embedding |-> <<0, 1, 0>>,
       metadata |-> None] }

\* natural keys used with similarity search
SearchKeys == { <<"p1", "doc", "d1">>, <<"p1", "doc", "d2">>, <<"p2", "doc", "d1">> }

\* store_embedding arguments that differ in the vector only
SearchPayloads ==
    { [title |-> "T", content |-> "text", embedding |-> v, metadata |-> None] : v \in Vectors }

\* search_similar arguments: thresholds 0, 0.5, 0.7 and 1.0 as num / sqrt(densq)
Queries    == { <<1, 0, 0>>, <<1, 1, 0>>, <<0, 0, 0>> }
Limits     == { -1, 0, 1, 2, 5 }
Thresholds == { [num |-> 0, densq |-> 1], [num |-> 1, densq |-> 4],
                [num |-> 7, densq |-> 100], [num |-> 1, densq |-> 1] }

\* inputs of the concurrent callers
ConcKeys     == { <<"p1", "doc", "d1">>, <<"p1", "doc", "d2">>, <<"p2", "doc", "d1">> }
ConcPayloads ==
    { [title |-> "T1", content |-> "text one", embedding |-> <<1, 0, 0>>, metadata |-> None],
      [title |-> "T2", content |-> "text two", embedding |-> <<0, 1, 0>>, metadata |-> None] }
ConcFileKeys == { <<"p1", "doc", "d1">>, <<"p2", "doc", "d1">> }
ConcFiles    ==
    { [filename |-> <<"test", "txt">>, content |-> <<84>>, mime_type |-> "text/plain"],
      [filename |-> <<"README">>,      content |-> <<>>,   mime_type |-> None] }

\* sessions the callers create: two ids and two token ids
SessionIds == {"s1", "s2"}
TokenIds   == {"j1", "j2"}
Sessions   ==
    [id : SessionIds, token_jti : TokenIds, client_name : {"cli"}, scopes : {"read,write"},
     issued_at : {1}, expires_at : {9}, ip_lock : {None}]

\* an optional value of the audit store (Python None, SQL NULL): no value, or one
Nothing == {}
Some(v) == {v}
The(o)  == CHOOSE v \in o : TRUE

\* traces the callers insert; a path is the list of its characters
TraceIds    == {"t1", "t2"}
TraceInputs ==
    { [id |-> "t1", ts |-> 5, method |-> "GET", path |-> <<"/", "a">>, status |-> 200,
       latency_ms |-> 12, ip |-> "10.0.0.1", ua |-> "ua", headers_slim |-> "{}",
       query |-> "", body_sha256 |-> "", token_sub |-> Nothing, error |-> Nothing],
      [id |-> "t2", ts |-> 5, method |-> "GET", path |-> <<"/", "A">>, status |-> 401,
       latency_ms |-> 3, ip |-> "10.0.0.2", ua |-> "ua", headers_slim |-> "{}",
       query |-> "", body_sha256 |-> "", token_sub |-> Nothing, error |-> Some("denied")],
      [id |-> "t2", ts |-> 7, method |-> "POST", path |-> <<"/", "b">>, status |-> 500,
       latency_ms |-> 40, ip |-> "10.0.0.1", ua |-> "ua", headers_slim |-> "{}",
       query |-> "", body_sha256 |-> "", token_sub |-> Some("s1"), error |-> Some("boom")],
      [id |-> "t1", ts |-> 7, method |-> "GET", path |-> <<"/", "a">>, status |-> 302,
       latency_ms |-> 9, ip |-> "10.0.0.2", ua |-> "ua", headers_slim |-> "{}",
       query |-> "", body_sha256 |-> "", token_sub |-> Nothing, error |-> Nothing] }

\* list_traces arguments, with the time of the call
TraceFilters ==
    { [since |-> Nothing, since_seconds |-> Nothing, status |-> Nothing, path |-> Nothing,
       ip |-> Nothing, has_error |-> Nothing, limit |-> 1, now |-> 8],
      [since |-> Some(6), since_seconds |-> Some(3), status |-> Nothing, path |-> Nothing,
       ip |-> Some("10.0.0.1"), has_error |-> Some(TRUE), limit |-> 5, now |-> 8],
      [since |-> Nothing, since_seconds |-> Nothing, status |-> Some(401),
       path |-> Some(<<"a">>), ip |-> Some(""), has_error |-> Nothing, limit |-> -1,
       now |-> 8],
      [since |-> Nothing, since_seconds |-> Nothing, status |-> Some(401), path |-> Nothing,
       ip |-> Nothing, has_error |-> Some(FALSE), limit |-> 5, now |-> 8],
      [since |-> Nothing, since_seconds |-> Nothing, status |-> Nothing,
       path |-> Some(<<"_", "a">>), ip |-> Nothing, has_error |-> Nothing, limit |-> 5,
       now |-> 8] }

\* metadata given to add_trace_metadata: a value and whether json.dumps accepts it
TraceMetadata ==
    { [serializable |-> TRUE, value |-> {<<"user", "u1">>}],
      [serializable |-> FALSE, value |-> {}] }

\* FAQ entries and KB articles the callers upsert: id ("" when the entry has none or
\* an empty one), the two text fields (question/answer, title/content)
EntryIds     == {"e1", "e2"}
\* the entries with the first text have no 'metadata' key, the others a mapping
EntryMetadata(first) ==
    IF first = "Q1" THEN Nothing ELSE Some({<<"source", "web">>, <<"lang", "en">>})
Entries      == { [id |-> i, first |-> f, second |-> "A", metadata |-> EntryMetadata(f)] :
                  i \in EntryIds \cup {""}, f \in {"Q1", "Q2"} }
EntryBatches == {<<e>> : e \in Entries} \cup
                {<<e, f>> : e \in {x \in Entries : x.first = "Q1" /\ x.id # "e2"},
                            f \in {x \in Entries : x.first = "Q2" /\ x.id = "e1"}}

\* (project, content_type, content_id) the callers attach files to
FileKeys == { <<"p1", "doc", "d1">>, <<"p1", "faq", "d1">>, <<"p2", "doc", "d1">> }

\* (filename, content, mime_type) arguments of store_file
Files ==
    { [filename |-> <<"test", "txt">>,      content |-> <<84>>,            mime_type |-> "text/plain"],
      [filename |-> <<"README">>,           content |-> <<>>,              mime_type |-> None],
      [filename |-> <<"a", "tar", "gz">>,   content |-> <<31, 139>>,       mime_type |-> "application/gzip"],
      [filename |-> <<"test", "txt">>,      content |-> <<255, 0, 10, 7>>, mime_type |-> "text/plain"] }

\* file ids a caller may pass: those issued so far and one never issued
FileIdNumbers == 0..MaxOps

Min(a, b) == IF a <= b THEN a ELSE b
Max(a, b) == IF a >= b THEN a ELSE b

(***************************************************************************)
(* Python and SQL value conversions                                        *)
(***************************************************************************)
\* uuid.uuid4(): a value not drawn before
Uuid4(n) == <<"uuid", n>>

\* str(x) of a small integer
PyStr(n) ==
    CASE n = -1 -> "-1" [] n = 0 -> "0" [] n = 1 -> "1" [] n = 2 -> "2"
      [] n = 3 -> "3"   [] n = 4 -> "4" [] n = 5 -> "5" [] n = 6 -> "6"
      [] n = 7 -> "7"   [] n = 8 -> "8" [] n = 9 -> "9" [] OTHER -> "10"

\* text -> number, as the ::vector cast reads a component
SqlNum(s) ==
    CASE s = "-1" -> -1 [] s = "0" -> 0 [] s = "1" -> 1 [] s = "2" -> 2
      [] s = "3" -> 3   [] s = "4" -> 4 [] s = "5" -> 5 [] s = "6" -> 6
      [] s = "7" -> 7   [] s = "8" -> 8 [] s = "9" -> 9 [] OTHER -> 10

\* '[' + ','.join(map(str, embedding)) + ']' : the list of component texts
EmbeddingStr(embedding) == [i \in 1..Len(embedding) |-> PyStr(embedding[i])]

\* ?::vector
VectorCast(text) == [i \in 1..Len(text) |-> SqlNum(text[i])]

\* metadata or {}
MetadataOrEmpty(metadata) ==
    IF metadata.none \/ metadata.items = {} THEN {} ELSE metadata.items

\* json.dumps(d) of a flat dict of strings: the text as its tokens
RECURSIVE JsonMembers(_)
JsonMembers(d) ==
    IF d = {} THEN <<>>
    ELSE LET m    == CHOOSE x \in d : TRUE
             rest == JsonMembers(d \ {m})
         IN  <<m[1], ":", m[2]>> \o (IF rest = <<>> THEN <<>> ELSE <<",">> \o rest)

JsonDumps(d) == <<"{">> \o JsonMembers(d) \o <<"}">>

JsonPunctuation == {"{", "}", ":", ","}

\* the parser on the members of an object from token i on: key, colon, value, then a
\* comma and more members or the closing brace as the last token; a later member
\* replaces an earlier one with the same key
RECURSIVE JsonParseMembers(_, _, _)
JsonParseMembers(tx, i, acc) ==
    IF i + 3 > Len(tx) THEN [ok |-> FALSE, value |-> {}]
    ELSE IF tx[i] \in JsonPunctuation \/ tx[i + 1] # ":" \/ tx[i + 2] \in JsonPunctuation
    THEN [ok |-> FALSE, value |-> {}]
    ELSE LET more == {m \in acc : m[1] # tx[i]} \cup {<<tx[i], tx[i + 2]>>} IN
         IF tx[i + 3] = "}" THEN [ok |-> i + 3 = Len(tx), value |-> more]
         ELSE IF tx[i + 3] = "," THEN JsonParseMembers(tx, i + 4, more)
         ELSE [ok |-> FALSE, value |-> {}]

JsonObject(tx) ==
    IF Len(tx) < 2 \/ tx[1] # "{" THEN [ok |-> FALSE, value |-> {}]
    ELSE IF tx[2] = "}" THEN [ok |-> Len(tx) = 2, value |-> {}]
    ELSE JsonParseMembers(tx, 2, {})

\* json.loads(tx) raises for a text that is no JSON document, else returns the value;
\* the ::jsonb cast reads the text the same way
JsonParses(tx) == JsonObject(tx).ok
JsonLoads(tx)  == JsonObject(tx).value

(***************************************************************************)
(* LocalVectorStorage                                                      *)
(***************************************************************************)
\* the comprehension with the comparison on the wrong field: nothing is removed
RemoveKeyWrongField(embeddings, content_type, content_id) ==
    SelectSeq(embeddings,
              LAMBDA e : ~(e.content_type = content_type /\ e.id = content_id))

\* a filter that drops every record with the content id, whatever its content type
RemoveContentId(embeddings, content_type, content_id) ==
    SelectSeq(embeddings, LAMBDA e : ~(e.content_id = content_id))

\* [e for e in embeddings if not (content_type == ... and content_id == ...)]
RemoveKey(embeddings, content_type, content_id) ==
    SelectSeq(embeddings,
              LAMBDA e : ~(e.content_type = content_type /\ e.content_id = content_id))

\* the new_embedding dict of store_embedding
NewEmbedding(id, project_id, content_type, content_id, pl) ==
    [id |-> id, project_id |-> project_id, content_type |-> content_type,
     content_id |-> content_id, title |-> pl.title, content |-> pl.content,
     embedding |-> pl.embedding, metadata |-> MetadataOrEmpty(pl.metadata)]

\* the list store_embedding saves
LocalStored(embeddings, id, project_id, content_type, content_id, pl) ==
    Append(RemoveKey(embeddings, content_type, content_id),
           NewEmbedding(id, project_id, content_type, content_id, pl))

\* the parts of a project id between its separators
Parts(project_id) ==
    IF project_id = "p1/." THEN <<"p1", ".">>
    ELSE IF project_id = "p2/../p1" THEN <<"p2", "..", "p1">>
    ELSE <<project_id>>

\* the directory a path leads to from the directory at: "." stays, ".." goes up
RECURSIVE Walk(_, _)
Walk(parts, at) ==
    IF Len(parts) = 0 THEN at
    ELSE IF Head(parts) = "." THEN Walk(Tail(parts), at)
    ELSE IF Head(parts) = ".." THEN Walk(Tail(parts), SubSeq(at, 1, Len(at) - 1))
    ELSE Walk(Tail(parts), Append(at, Head(parts)))

\* _get_project_dir: base_dir / project_id / "vectors" (or "attachments"); the
\* directory below base_dir in which the files of the project id lie
ProjectDir(project_id) == Walk(Parts(project_id), <<>>)[1]

\* get_embeddings: `if content_type:` keeps everything for None and for ""
LocalGetEmbeddings(embeddings, content_type) ==
    IF content_type = "" THEN embeddings
    ELSE SelectSeq(embeddings, LAMBDA e : e.content_type = content_type)

LocalStoreEmbedding(k, pl) ==
    /\ backend = "local" /\ family = "vector"
    /\ ops < MaxOps
    /\ LET id == Uuid4(uuidCtr + 1) IN
       /\ embFile' = [embFile EXCEPT ![ProjectDir(k[1])] = LocalStored(@, id, k[1], k[2], k[3], pl)]
       /\ uuidCtr' = uuidCtr + 1
       /\ last' = [exc |-> "", op |-> "store_embedding", key |-> k, arg |-> pl, ret |-> id]
    /\ ops' = ops + 1
    /\ UNCHANGED <<backend, family, depVars, audVars, prvVars, cntVars, vecTable, vecSerial, attVars, conVars>>

LocalDeleteEmbedding(k) ==
    /\ backend = "local" /\ family = "vector"
    /\ ops < MaxOps
    /\ LET embeddings == embFile[ProjectDir(k[1])]
           kept       == RemoveKey(embeddings, k[2], k[3])
       IN IF Len(kept) < Len(embeddings)
          THEN /\ embFile' = [embFile EXCEPT ![ProjectDir(k[1])] = kept]
               /\ last' = [exc |-> "", op |-> "delete_embedding", key |-> k, arg |-> None, ret |-> TRUE]
          ELSE /\ embFile' = embFile
               /\ last' = [exc |-> "", op |-> "delete_embedding", key |-> k, arg |-> None, ret |-> FALSE]
    /\ ops' = ops + 1
    /\ UNCHANGED <<backend, family, depVars, audVars, prvVars, cntVars, vecTable, vecSerial, uuidCtr, attVars, conVars>>

LocalGetEmbeddingsCall(p, ct) ==
    /\ backend = "local" /\ family = "vector"
    /\ ops < MaxOps
    /\ last' = [exc |-> "", op |-> "get_embeddings", key |-> <<p, ct, "">>, arg |-> None,
                ret |-> LocalGetEmbeddings(embFile[ProjectDir(p)], ct)]
    /\ ops' = ops + 1
    /\ UNCHANGED <<backend, family, depVars, audVars, prvVars, cntVars, vecVars, uuidCtr, attVars, conVars>>

(***************************************************************************)
(* PostgreSQLVectorStorage over a provider whose execute commits each      *)
(* statement before it returns (db_interfaces.py, PostgreSQLDatabase)      *)
(***************************************************************************)
\* WHERE project_id = ? AND content_type = ? AND content_id = ?
KeyMatch(r, project_id, content_type, content_id) ==
    /\ r.project_id = project_id
    /\ r.content_type = content_type
    /\ r.content_id = content_id

\* DELETE FROM vector_embeddings WHERE <key>
SqlDeleteEmbedding(table, project_id, content_type, content_id) ==
    SelectSeq(table, LAMBDA r : ~KeyMatch(r, project_id, content_type, content_id))

\* INSERT INTO vector_embeddings (...) VALUES (?, ?, ?, ?, ?, ?::vector, ?::jsonb)
SqlInsertEmbedding(table, serial, project_id, content_type, content_id, title, content, embedding_str, metadata_json) ==
    Append(table,
           [id |-> serial, project_id |-> project_id, content_type |-> content_type,
            content_id |-> content_id, title |-> title, content |-> content,
            embedding |-> VectorCast(embedding_str),
            metadata |-> JsonLoads(metadata_json)])

\* SELECT id FROM vector_embeddings WHERE <key>
SqlSelectIds(table, project_id, content_type, content_id) ==
    LET hit == SelectSeq(table, LAMBDA r : KeyMatch(r, project_id, content_type, content_id))
    IN  [i \in 1..Len(hit) |-> hit[i].id]

\* str(results[0]['id']) if results else None
PgReturnedId(results) == IF Len(results) > 0 THEN PyStr(results[1]) ELSE "None"

Reverse(s) == [i \in 1..Len(s) |-> s[Len(s) + 1 - i]]

\* the columns get_embeddings selects (the embedding column is not among them)
EmbeddingColumns(r) ==
    [id |-> r.id, project_id |-> r.project_id, content_type |-> r.content_type,
     content_id |-> r.content_id, title |-> r.title, content |-> r.content,
     metadata |-> r.metadata]

\* SELECT ... WHERE project_id = ? [AND content_type = ?] ORDER BY created_at DESC
PgGetEmbeddings(table, project_id, content_type) ==
    LET hit == SelectSeq(table, LAMBDA r :
                   /\ r.project_id = project_id
                   /\ (content_type = "" \/ r.content_type = content_type))
    IN  Reverse([i \in 1..Len(hit) |-> EmbeddingColumns(hit[i])])

\* the table after the DELETE and the INSERT of store_embedding
PgStored(table, serial, project_id, content_type, content_id, pl) ==
    SqlInsertEmbedding(SqlDeleteEmbedding(table, project_id, content_type, content_id),
                       serial, project_id, content_type, content_id,
                       pl.title, pl.content, EmbeddingStr(pl.embedding),
                       JsonDumps(MetadataOrEmpty(pl.metadata)))

PgStoreEmbedding(k, pl) ==
    /\ backend = "postgresql" /\ family = "vector"
    /\ ops < MaxOps
    /\ LET stored == PgStored(vecTable, vecSerial + 1, k[1], k[2], k[3], pl) IN
       /\ vecTable' = stored
       /\ vecSerial' = vecSerial + 1
       /\ last' = [exc |-> "", op |-> "store_embedding", key |-> k, arg |-> pl,
                   ret |-> PgReturnedId(SqlSelectIds(stored, k[1], k[2], k[3]))]
    /\ ops' = ops + 1
    /\ UNCHANGED <<backend, family, depVars, audVars, prvVars, cntVars, embFile, uuidCtr, attVars, conVars>>

PgDeleteEmbedding(k) ==
    /\ backend = "postgresql" /\ family = "vector"
    /\ ops < MaxOps
    /\ IF Len(SqlSelectIds(vecTable, k[1], k[2], k[3])) = 0
       THEN /\ vecTable' = vecTable
            /\ last' = [exc |-> "", op |-> "delete_embedding", key |-> k, arg |-> None, ret |-> FALSE]
       ELSE /\ vecTable' = SqlDeleteEmbedding(vecTable, k[1], k[2], k[3])
            /\ last' = [exc |-> "", op |-> "delete_embedding", key |-> k, arg |-> None, ret |-> TRUE]
    /\ ops' = ops + 1
    /\ UNCHANGED <<backend, family, depVars, audVars, prvVars, cntVars, embFile, vecSerial, uuidCtr, attVars, conVars>>

PgGetEmbeddingsCall(p, ct) ==
    /\ backend = "postgresql" /\ family = "vector"
    /\ ops < MaxOps
    /\ last' = [exc |-> "", op |-> "get_embeddings", key |-> <<p, ct, "">>, arg |-> None,
                ret |-> PgGetEmbeddings(vecTable, p, ct)]
    /\ ops' = ops + 1
    /\ UNCHANGED <<backend, family, depVars, audVars, prvVars, cntVars, vecVars, uuidCtr, attVars, conVars>>

(***************************************************************************)
(* Similarity search                                                       *)
(***************************************************************************)
\* a similarity is the real number num / sqrt(densq); densq = 0 stands for NaN
Sim(num, densq) == [num |-> num, densq |-> densq]

\* x >= y on similarities that are numbers
SimGeq(x, y) ==
    IF x.num >= 0 /\ y.num <= 0 THEN TRUE
    ELSE IF x.num <= 0 /\ y.num >= 0 THEN FALSE
    ELSE IF x.num > 0 THEN x.num * x.num * y.densq >= y.num * y.num * x.densq
    ELSE x.num * x.num * y.densq <= y.num * y.num * x.densq

SimEq(x, y) == SimGeq(x, y) /\ SimGeq(y, x)

RECURSIVE DotUpTo(_, _, _)
DotUpTo(a, b, n) == IF n = 0 THEN 0 ELSE a[n] * b[n] + DotUpTo(a, b, n - 1)
\* sum(x * y for x, y in zip(a, b))
Dot(a, b) == DotUpTo(a, b, Min(Len(a), Len(b)))
\* sum(x * x for x in a)
SumSq(a) == DotUpTo(a, a, Len(a))

\* the nested function cosine_similarity of LocalVectorStorage.search_similar
cosine_similarity(a, b) ==
    IF SumSq(a) = 0 \/ SumSq(b) = 0 THEN Sim(0, 1)
    ELSE Sim(Dot(a, b), SumSq(a) * SumSq(b))

\* result = emb.copy(); result['similarity'] = similarity
WithSimilarity(emb, similarity) ==
    [id |-> emb.id, project_id |-> emb.project_id, content_type |-> emb.content_type,
     content_id |-> emb.content_id, title |-> emb.title, content |-> emb.content,
     embedding |-> emb.embedding, metadata |-> emb.metadata, similarity |-> similarity]

\* the loop that keeps the records with similarity >= threshold
RECURSIVE Qualifying(_, _, _)
Qualifying(embeddings, query_embedding, threshold) ==
    IF Len(embeddings) = 0 THEN <<>>
    ELSE LET emb        == embeddings[Len(embeddings)]
             similarity == cosine_similarity(query_embedding, emb.embedding)
             before     == Qualifying(SubSeq(embeddings, 1, Len(embeddings) - 1),
                                      query_embedding, threshold)
         IN  IF SimGeq(similarity, threshold)
             THEN Append(before, WithSimilarity(emb, similarity))
             ELSE before

\* the insertion with > for >=: records of equal similarity come out reversed
InsertDescUnstable(sorted, x) ==
    LET k == Cardinality({i \in 1..Len(sorted) :
                 SimGeq(sorted[i].similarity, x.similarity)
                 /\ ~SimGeq(x.similarity, sorted[i].similarity)})
    IN  SubSeq(sorted, 1, k) \o <<x>> \o SubSeq(sorted, k + 1, Len(sorted))

\* results.sort(key=lambda x: x['similarity'], reverse=True): a stable sort, so
\* x goes behind every element whose similarity is >= its own
InsertDesc(sorted, x) ==
    LET k == Cardinality({i \in 1..Len(sorted) : SimGeq(sorted[i].similarity, x.similarity)})
    IN  SubSeq(sorted, 1, k) \o <<x>> \o SubSeq(sorted, k + 1, Len(sorted))

RECURSIVE SortBySimilarity(_)
SortBySimilarity(results) ==
    IF Len(results) <= 1 THEN results
    ELSE InsertDesc(SortBySimilarity(SubSeq(results, 1, Len(results) - 1)),
                    results[Len(results)])

\* results[:limit], the Python slice
SliceTo(results, limit) ==
    IF limit >= 0 THEN SubSeq(results, 1, Min(limit, Len(results)))
    ELSE SubSeq(results, 1, Max(0, Len(results) + limit))

\* LocalVectorStorage.search_similar on the list of one project
LocalSearchSimilar(embeddings, query_embedding, limit, threshold) ==
    SliceTo(SortBySimilarity(Qualifying(embeddings, query_embedding, threshold)), limit)

\* 1 - (embedding <=> ?::vector): pgvector's cosine distance is NaN for a zero vector
PgSimilarity(embedding, query) ==
    IF SumSq(embedding) = 0 \/ SumSq(query) = 0 THEN Sim(0, 0)
    ELSE Sim(Dot(embedding, query), SumSq(embedding) * SumSq(query))

\* x >= y as PostgreSQL compares float8: NaN is greater than every number
SqlGeq(x, y) == IF x.densq = 0 THEN TRUE ELSE SimGeq(x, y)

\* ORDER BY embedding <=> ?: r may precede u (NaN distances sort last)
DistanceLeq(r, u) ==
    IF u.similarity.densq = 0 THEN TRUE
    ELSE IF r.similarity.densq = 0 THEN FALSE
    ELSE SimGeq(r.similarity, u.similarity)

\* the rows of the SELECT before ORDER BY and LIMIT
PgSearchRows(table, project_id, query, threshold) ==
    LET hit == SelectSeq(table, LAMBDA r :
                   /\ r.project_id = project_id
                   /\ SqlGeq(PgSimilarity(r.embedding, query), threshold))
    IN  [i \in 1..Len(hit) |->
            [id |-> hit[i].id, project_id |-> hit[i].project_id,
             content_type |-> hit[i].content_type, content_id |-> hit[i].content_id,
             title |-> hit[i].title, content |-> hit[i].content,
             metadata |-> hit[i].metadata,
             similarity |-> PgSimilarity(hit[i].embedding, query)]]

\* every order ORDER BY allows (rows at the same distance come in any order), cut by LIMIT
PgSearchSimilar(table, project_id, query_embedding, limit, threshold) ==
    LET rows  == PgSearchRows(table, project_id, VectorCast(EmbeddingStr(query_embedding)),
                              threshold)
        n     == Len(rows)
        perms == {f \in [1..n -> 1..n] :
                     /\ \A i, j \in 1..n : i # j => f[i] # f[j]
                     /\ \A i, j \in 1..n : i < j => DistanceLeq(rows[f[i]], rows[f[j]])}
    IN  {SubSeq([i \in 1..n |-> rows[f[i]]], 1, Min(limit, n)) : f \in perms}

LocalSearchSimilarCall(p, q, limit, threshold) ==
    /\ backend = "local" /\ family = "vector"
    /\ ops < MaxOps
    /\ last' = [exc |-> "", op |-> "search_similar", key |-> <<p, "", "">>,
                arg |-> [query |-> q, limit |-> limit, threshold |-> threshold],
                ret |-> LocalSearchSimilar(embFile[ProjectDir(p)], q, limit, threshold)]
    /\ ops' = ops + 1
    /\ UNCHANGED <<backend, family, depVars, audVars, prvVars, cntVars, vecVars, uuidCtr, attVars, conVars>>

\* a negative LIMIT makes the statement fail, and query raises
PgSearchSimilarCall(p, q, limit, threshold) ==
    /\ backend = "postgresql" /\ family = "vector"
    /\ ops < MaxOps
    /\ IF limit < 0
       THEN last' = [exc |-> "DatabaseError", op |-> "search_similar", key |-> <<p, "", "">>,
                     arg |-> [query |-> q, limit |-> limit, threshold |-> threshold],
                     ret |-> <<>>]
       ELSE \E res \in PgSearchSimilar(vecTable, p, q, limit, threshold) :
              last' = [exc |-> "", op |-> "search_similar", key |-> <<p, "", "">>,
                       arg |-> [query |-> q, limit |-> limit, threshold |-> threshold],
                       ret |-> res]
    /\ ops' = ops + 1
    /\ UNCHANGED <<backend, family, depVars, audVars, prvVars, cntVars, vecVars, uuidCtr, attVars, conVars>>

(***************************************************************************)
(* One LocalVectorStorage and one PostgreSQLVectorStorage given the same   *)
(* calls (backend = "both")                                                *)
(***************************************************************************)
\* the natural keys of a result list, in order
NaturalKeys(results) ==
    [i \in 1..Len(results) |->
        <<results[i].project_id, results[i].content_type, results[i].content_id>>]

\* store_embedding on both instances
ParityStoreEmbedding(k, pl) ==
    /\ backend = "both" /\ family = "vector"
    /\ ops < MaxOps
    /\ LET id     == Uuid4(uuidCtr + 1)
           stored == PgStored(vecTable, vecSerial + 1, k[1], k[2], k[3], pl)
       IN
       /\ embFile' = [embFile EXCEPT ![k[1]] = LocalStored(@, id, k[1], k[2], k[3], pl)]
       /\ uuidCtr' = uuidCtr + 1
       /\ vecTable' = stored
       /\ vecSerial' = vecSerial + 1
       /\ last' = [exc |-> "", op |-> "store_embedding", key |-> k, arg |-> pl, ret |-> id,
                   pg |-> [exc |-> "",
                           ret |-> PgReturnedId(SqlSelectIds(stored, k[1], k[2], k[3]))]]
    /\ ops' = ops + 1
    /\ UNCHANGED <<backend, family, depVars, audVars, prvVars, cntVars, attVars, conVars>>

\* delete_embedding on both instances
ParityDeleteEmbedding(k) ==
    /\ backend = "both" /\ family = "vector"
    /\ ops < MaxOps
    /\ LET kept  == RemoveKey(embFile[k[1]], k[2], k[3])
           found == Len(SqlSelectIds(vecTable, k[1], k[2], k[3])) > 0
       IN
       /\ embFile' = [embFile EXCEPT ![k[1]] = kept]
       /\ vecTable' = IF found THEN SqlDeleteEmbedding(vecTable, k[1], k[2], k[3])
                      ELSE vecTable
       /\ last' = [exc |-> "", op |-> "delete_embedding", key |-> k, arg |-> None,
                   ret |-> Len(kept) < Len(embFile[k[1]]),
                   pg |-> [exc |-> "", ret |-> found]]
    /\ ops' = ops + 1
    /\ UNCHANGED <<backend, family, depVars, audVars, prvVars, cntVars, vecSerial, uuidCtr, attVars, conVars>>

\* search_similar on both instances with the same arguments
ParitySearchSimilar(p, q, limit, threshold) ==
    /\ backend = "both" /\ family = "vector"
    /\ ops < MaxOps
    /\ \E res \in IF limit < 0 THEN {[exc |-> "DatabaseError", ret |-> <<>>]}
                  ELSE {[exc |-> "", ret |-> r] :
                            r \in PgSearchSimilar(vecTable, p, q, limit, threshold)} :
          last' = [exc |-> "", op |-> "search_similar", key |-> <<p, "", "">>,
                   arg |-> [query |-> q, limit |-> limit, threshold |-> threshold],
                   ret |-> LocalSearchSimilar(embFile[p], q, limit, threshold),
                   pg |-> res]
    /\ ops' = ops + 1
    /\ UNCHANGED <<backend, family, depVars, audVars, prvVars, cntVars, vecVars, uuidCtr, attVars, conVars>>

(***************************************************************************)
(* Attachment stores                                                       *)
(***************************************************************************)
\* a filename is the list of its parts between dots: "a.tar.gz" is <<"a","tar","gz">>
\* bytes are lists of values 0..255

\* f with f[k] = v (a file written, a dict entry set)
Put(f, k, v) == [x \in DOMAIN f \cup {k} |-> IF x = k THEN v ELSE f[x]]
\* f without k (a file unlinked)
Drop(f, k) == [x \in DOMAIN f \ {k} |-> f[x]]

\* metadata.get(file_id) on the ordered dict, None when absent
MetaGet(metadata, file_id) ==
    LET hit == SelectSeq(metadata, LAMBDA m : m.file_id = file_id)
    IN  IF Len(hit) = 0 THEN None ELSE hit[1]

\* the record stored in place of the one the content already has, as an upsert would
MetaSetByContent(metadata, file_id, rec) ==
    Append(SelectSeq(metadata, LAMBDA m : ~(/\ m.content_type = rec.content_type
                                            /\ m.content_id = rec.content_id)), rec)

\* metadata[file_id] = record
MetaSet(metadata, file_id, rec) ==
    IF \E i \in 1..Len(metadata) : metadata[i].file_id = file_id
    THEN [i \in 1..Len(metadata) |->
             IF metadata[i].file_id = file_id THEN rec ELSE metadata[i]]
    ELSE Append(metadata, rec)

\* del metadata[file_id]
MetaDel(metadata, file_id) == SelectSeq(metadata, LAMBDA m : m.file_id # file_id)

\* the content stored under the uploaded name instead of the file id
StorageFilenameOriginal(file_id, filename) == filename

\* storage_filename: f"{file_id}.{extension}" when '.' in filename, else file_id
StorageFilename(file_id, filename) ==
    IF Len(filename) > 1 THEN <<file_id, filename[Len(filename)]>> ELSE <<file_id>>

\* the metadata record store_file writes
LocalFileMeta(file_id, project_id, content_type, content_id, filename, content, mime_type) ==
    [file_id |-> file_id, project_id |-> project_id, content_type |-> content_type,
     content_id |-> content_id, filename |-> StorageFilename(file_id, filename),
     original_filename |-> filename, mime_type |-> mime_type,
     file_size |-> Len(content), storage_backend |-> "local"]

\* retrieve_file on the files of one project
LocalRetrieveFile(metadata, files, file_id) ==
    LET file_meta == MetaGet(metadata, file_id) IN
    IF file_meta = None THEN [exc |-> "FileNotFoundError"]
    ELSE IF file_meta.filename \notin DOMAIN files THEN [exc |-> "FileNotFoundError"]
    ELSE [content |-> files[file_meta.filename], mime_type |-> file_meta.mime_type,
          original_filename |-> file_meta.original_filename]

\* list_files on the metadata of one project
LocalListFiles(metadata, content_type) ==
    IF content_type = "" THEN metadata
    ELSE SelectSeq(metadata, LAMBDA m : m.content_type = content_type)

\* base64.b64encode(content).decode('utf-8'): characters as their 6-bit values, '=' as Pad
Pad == 64
RECURSIVE B64Encode(_)
B64Encode(b) ==
    IF Len(b) = 0 THEN <<>>
    ELSE IF Len(b) = 1 THEN <<b[1] \div 4, (b[1] % 4) * 16, Pad, Pad>>
    ELSE IF Len(b) = 2
         THEN <<b[1] \div 4, (b[1] % 4) * 16 + b[2] \div 16, (b[2] % 16) * 4, Pad>>
    ELSE <<b[1] \div 4, (b[1] % 4) * 16 + b[2] \div 16,
           (b[2] % 16) * 4 + b[3] \div 64, b[3] % 64>> \o B64Encode(SubSeq(b, 4, Len(b)))

\* a character outside the base64 alphabet
Junk == Pad + 1

\* binascii.a2b_base64 as base64.b64decode(text) calls it, validate=False: characters
\* outside the alphabet are skipped; a '=' that completes a quad of at least two data
\* characters ends the decoding, whatever follows, and any other '=' is skipped; a
\* quad left incomplete at the end of the text raises binascii.Error
RECURSIVE A2bBase64(_, _, _, _)
A2bBase64(t, quad, pads, out) ==
    IF Len(t) = 0
    THEN IF Len(quad) = 0 THEN [exc |-> "", data |-> out]
         ELSE [exc |-> "binascii.Error", data |-> <<>>]
    ELSE LET c == Head(t)
             q == Append(quad, c)
         IN  IF c = Pad
             THEN IF Len(quad) >= 2 /\ Len(quad) + pads + 1 >= 4
                  THEN [exc |-> "", data |-> out]
                  ELSE A2bBase64(Tail(t), quad, IF Len(quad) >= 2 THEN pads + 1 ELSE pads, out)
             ELSE IF c > Pad THEN A2bBase64(Tail(t), quad, pads, out)
             ELSE IF Len(q) = 1 THEN A2bBase64(Tail(t), q, 0, out)
             ELSE IF Len(q) = 2
                  THEN A2bBase64(Tail(t), q, 0, Append(out, q[1] * 4 + q[2] \div 16))
             ELSE IF Len(q) = 3
                  THEN A2bBase64(Tail(t), q, 0, Append(out, (q[2] % 16) * 16 + q[3] \div 4))
             ELSE A2bBase64(Tail(t), <<>>, 0, Append(out, (q[3] % 4) * 64 + q[4]))

\* base64.b64decode(text)
B64Decode(t) == A2bBase64(t, <<>>, 0, <<>>)

\* INSERT INTO attachments (...) VALUES (..., 'postgresql', '{}')
SqlInsertAttachment(table, serial, file_id, project_id, content_type, content_id, filename, mime_type, file_size, content_base64) ==
    Append(table,
           [id |-> serial, file_id |-> file_id, project_id |-> project_id,
            content_type |-> content_type, content_id |-> content_id,
            filename |-> filename, original_filename |-> filename,
            mime_type |-> mime_type, file_size |-> file_size,
            file_content_base64 |-> content_base64, storage_backend |-> "postgresql"])

\* SELECT ... FROM attachments WHERE project_id = ? AND file_id = ?
SqlSelectAttachment(table, project_id, file_id) ==
    SelectSeq(table, LAMBDA r : r.project_id = project_id /\ r.file_id = file_id)

\* the DELETE without the file_id condition
SqlDeleteAttachmentOfProject(table, project_id, file_id) ==
    SelectSeq(table, LAMBDA r : r.project_id # project_id)

\* DELETE FROM attachments WHERE project_id = ? AND file_id = ?
SqlDeleteAttachment(table, project_id, file_id) ==
    SelectSeq(table, LAMBDA r : ~(r.project_id = project_id /\ r.file_id = file_id))

\* PostgreSQLAttachmentStorage.retrieve_file
PgRetrieveFile(table, project_id, file_id) ==
    LET results == SqlSelectAttachment(table, project_id, file_id) IN
    IF Len(results) = 0 THEN [exc |-> "FileNotFoundError"]
    ELSE LET content == B64Decode(results[1].file_content_base64) IN
         IF content.exc # "" THEN [exc |-> "ValueError"]
         ELSE [content |-> content.data,
               mime_type |-> results[1].mime_type,
               original_filename |-> results[1].original_filename]

\* the columns list_files selects (the encoded content is not among them)
AttachmentColumns(r) ==
    [file_id |-> r.file_id, project_id |-> r.project_id, content_type |-> r.content_type,
     content_id |-> r.content_id, filename |-> r.filename,
     original_filename |-> r.original_filename, mime_type |-> r.mime_type,
     file_size |-> r.file_size, storage_backend |-> r.storage_backend]

\* SELECT ... WHERE project_id = ? [AND content_type = ?] ORDER BY created_at DESC
PgListFiles(table, project_id, content_type) ==
    LET hit == SelectSeq(table, LAMBDA r :
                   /\ r.project_id = project_id
                   /\ (content_type = "" \/ r.content_type = content_type))
    IN  Reverse([i \in 1..Len(hit) |-> AttachmentColumns(hit[i])])

\* history kept beside the model: the arguments of the store_file call that returned id
Issue(h, id, project_id, fl) ==
    Put(h, id, [project_id |-> project_id, filename |-> fl.filename,
                content |-> fl.content, mime_type |-> fl.mime_type])
\* delete_file(project_id, id) was called
Revoke(h, project_id, id) ==
    IF id \in DOMAIN h /\ h[id].project_id = project_id THEN Drop(h, id) ELSE h

LocalStoreFile(k, fl) ==
    /\ backend = "local" /\ family = "attachment"
    /\ ops < MaxOps
    /\ LET file_id  == Uuid4(uuidCtr + 1)
           rec      == LocalFileMeta(file_id, k[1], k[2], k[3],
                                     fl.filename, fl.content, fl.mime_type)
       IN
       /\ contentFiles' = [contentFiles EXCEPT ![ProjectDir(k[1])] = Put(@, rec.filename, fl.content)]
       /\ metaFile' = [metaFile EXCEPT ![ProjectDir(k[1])] = MetaSet(@, file_id, rec)]
       /\ issued' = Issue(issued, file_id, k[1], fl)
       /\ last' = [exc |-> "", op |-> "store_file", key |-> k, arg |-> fl, ret |-> file_id]
    /\ uuidCtr' = uuidCtr + 1
    /\ ops' = ops + 1
    /\ UNCHANGED <<backend, family, depVars, audVars, prvVars, cntVars, vecVars, attTable, attSerial, conVars>>

LocalRetrieveFileCall(p, n) ==
    /\ backend = "local" /\ family = "attachment"
    /\ ops < MaxOps
    /\ last' = [exc |-> "", op |-> "retrieve_file", key |-> <<p, Uuid4(n)>>, arg |-> None,
                ret |-> LocalRetrieveFile(metaFile[ProjectDir(p)], contentFiles[ProjectDir(p)], Uuid4(n))]
    /\ ops' = ops + 1
    /\ UNCHANGED <<backend, family, depVars, audVars, prvVars, cntVars, vecVars, attVars, uuidCtr, conVars>>

LocalDeleteFile(p, n) ==
    /\ backend = "local" /\ family = "attachment"
    /\ ops < MaxOps
    /\ LET file_id   == Uuid4(n)
           file_meta == MetaGet(metaFile[ProjectDir(p)], file_id)
       IN IF file_meta = None
          THEN /\ UNCHANGED <<contentFiles, metaFile>>
               /\ last' = [exc |-> "", op |-> "delete_file", key |-> <<p, file_id>>, arg |-> None,
                           ret |-> FALSE]
          ELSE /\ contentFiles' = [contentFiles EXCEPT ![ProjectDir(p)] = Drop(@, file_meta.filename)]
               /\ metaFile' = [metaFile EXCEPT ![ProjectDir(p)] = MetaDel(@, file_id)]
               /\ last' = [exc |-> "", op |-> "delete_file", key |-> <<p, file_id>>, arg |-> None,
                           ret |-> TRUE]
    /\ issued' = Revoke(issued, p, Uuid4(n))
    /\ ops' = ops + 1
    /\ UNCHANGED <<backend, family, depVars, audVars, prvVars, cntVars, vecVars, attTable, attSerial, uuidCtr, conVars>>

LocalListFilesCall(p, ct) ==
    /\ backend = "local" /\ family = "attachment"
    /\ ops < MaxOps
    /\ last' = [exc |-> "", op |-> "list_files", key |-> <<p, ct>>, arg |-> None,
                ret |-> LocalListFiles(metaFile[ProjectDir(p)], ct)]
    /\ ops' = ops + 1
    /\ UNCHANGED <<backend, family, depVars, audVars, prvVars, cntVars, vecVars, attVars, uuidCtr, conVars>>

PgStoreFile(k, fl) ==
    /\ backend = "postgresql" /\ family = "attachment"
    /\ ops < MaxOps
    /\ LET file_id == Uuid4(uuidCtr + 1) IN
       /\ attTable' = SqlInsertAttachment(attTable, attSerial + 1, file_id, k[1], k[2], k[3],
                                          fl.filename, fl.mime_type, Len(fl.content),
                                          B64Encode(fl.content))
       /\ issued' = Issue(issued, file_id, k[1], fl)
       /\ last' = [exc |-> "", op |-> "store_file", key |-> k, arg |-> fl, ret |-> file_id]
    /\ attSerial' = attSerial + 1
    /\ uuidCtr' = uuidCtr + 1
    /\ ops' = ops + 1
    /\ UNCHANGED <<backend, family, depVars, audVars, prvVars, cntVars, vecVars, contentFiles, metaFile, conVars>>

PgRetrieveFileCall(p, n) ==
    /\ backend = "postgresql" /\ family = "attachment"
    /\ ops < MaxOps
    /\ last' = [exc |-> "", op |-> "retrieve_file", key |-> <<p, Uuid4(n)>>, arg |-> None,
                ret |-> PgRetrieveFile(attTable, p, Uuid4(n))]
    /\ ops' = ops + 1
    /\ UNCHANGED <<backend, family, depVars, audVars, prvVars, cntVars, vecVars, attVars, uuidCtr, conVars>>

PgDeleteFile(p, n) ==
    /\ backend = "postgresql" /\ family = "attachment"
    /\ ops < MaxOps
    /\ IF Len(SqlSelectAttachment(attTable, p, Uuid4(n))) = 0
       THEN /\ attTable' = attTable
            /\ last' = [exc |-> "", op |-> "delete_file", key |-> <<p, Uuid4(n)>>, arg |-> None,
                        ret |-> FALSE]
       ELSE /\ attTable' = SqlDeleteAttachment(attTable, p, Uuid4(n))
            /\ last' = [exc |-> "", op |-> "delete_file", key |-> <<p, Uuid4(n)>>, arg |-> None,
                        ret |-> TRUE]
    /\ issued' = Revoke(issued, p, Uuid4(n))
    /\ ops' = ops + 1
    /\ UNCHANGED <<backend, family, depVars, audVars, prvVars, cntVars, vecVars, contentFiles, metaFile, attSerial, uuidCtr, conVars>>

PgListFilesCall(p, ct) ==
    /\ backend = "postgresql" /\ family = "attachment"
    /\ ops < MaxOps
    /\ last' = [exc |-> "", op |-> "list_files", key |-> <<p, ct>>, arg |-> None,
                ret |-> PgListFiles(attTable, p, ct)]
    /\ ops' = ops + 1
    /\ UNCHANGED <<backend, family, depVars, audVars, prvVars, cntVars, vecVars, attVars, uuidCtr, conVars>>

\* the texts a stored encoding can turn into outside the program: one character
\* replaced by another of the alphabet, the last character lost, a foreign character
\* put in front, the text emptied
Corruptions(t) ==
    ( {<<>>, <<Junk>> \o t}
      \cup (IF Len(t) = 0 THEN {}
            ELSE {[t EXCEPT ![1] = (t[1] + 1) % 64], SubSeq(t, 1, Len(t) - 1)}) ) \ {t}

\* file_content_base64 of one row is damaged in the database (storage fault, a write
\* by another program); the row has, until then, the encoding store_file wrote
CorruptContent(i, text) ==
    /\ backend = "postgresql" /\ family = "attachment"
    /\ i \in 1..Len(attTable)
    /\ attTable[i].file_id \in DOMAIN issued
    /\ attTable[i].file_content_base64 = B64Encode(issued[attTable[i].file_id].content)
    /\ text \in Corruptions(attTable[i].file_content_base64)
    /\ attTable' = [attTable EXCEPT ![i].file_content_base64 = text]
    /\ UNCHANGED <<backend, family, depVars, audVars, prvVars, cntVars, vecVars, contentFiles,
                   metaFile, attSerial, issued, uuidCtr, last, ops, conVars>>

(***************************************************************************)
(* PostgreSQLContentStorage: FAQ entries and KB articles                   *)
(***************************************************************************)
\* what execute() of a provider returns: the method has no return statement
ExecuteResult == None

\* hasattr(result, 'rowcount'): None has no such attribute
HasRowcount(result) == ~result.none

\* SELECT id FROM <table> WHERE id = %s AND project_id = %s
SqlSelectById(table, id, p) ==
    SelectSeq(table, LAMBDA r : r.id = id /\ r.project_id = p)

\* DELETE FROM <table> WHERE id = %s AND project_id = %s
SqlDeleteById(table, id, p) ==
    SelectSeq(table, LAMBDA r : ~(r.id = id /\ r.project_id = p))

\* result.rowcount > 0 if hasattr(result, 'rowcount') else True
DeleteReturn(result, rowcount) ==
    IF HasRowcount(result) THEN rowcount > 0 ELSE TRUE

\* f"faq_{uuid.uuid4().hex[:8]}" and f"kb_{uuid.uuid4().hex[:8]}"
GeneratedId(prefix, n) == <<prefix, n>>

\* faq.get('metadata', {}) without the entry's value: always the default
GetMetadataDefaultOnly(e) == {}

\* faq.get('metadata', {})
GetMetadata(e) == IF e.metadata = Nothing THEN {} ELSE The(e.metadata)

\* UPDATE ... SET <first> = %s, <second> = %s, tags, source, source_file, metadata,
\* updated_at = CURRENT_TIMESTAMP WHERE id = %s AND project_id = %s
SqlUpdateContent(table, id, p, e, now) ==
    [i \in 1..Len(table) |->
        IF table[i].id = id /\ table[i].project_id = p
        THEN [table[i] EXCEPT !.first = e.first, !.second = e.second, !.tags = "",
                              !.source = "manual", !.source_file = None,
                              !.metadata = Some(JsonDumps(GetMetadata(e))),
                              !.updated_at = now]
        ELSE table[i]]

\* INSERT INTO <table> (id, project_id, <first>, <second>, tags, source, source_file, metadata)
SqlInsertContent(table, id, p, e, now) ==
    Append(table, [id |-> id, project_id |-> p, first |-> e.first, second |-> e.second,
                   tags |-> "", source |-> "manual", source_file |-> None,
                   metadata |-> Some(JsonDumps(GetMetadata(e))),
                   created_at |-> now, updated_at |-> now])

\* the loop of upsert_faqs / upsert_kb_articles from entry i on; st holds the table,
\* the clock, the uuid counter and the two id lists
RECURSIVE UpsertFrom(_, _, _, _, _)
UpsertFrom(st, prefix, p, entries, i) ==
    IF i > Len(entries) THEN st
    ELSE LET e        == entries[i]
             fresh    == e.id = ""
             id       == IF fresh THEN GeneratedId(prefix, st.uuid + 1) ELSE <<e.id>>
             existing == SqlSelectById(st.table, id, p)
             now      == st.clock + 1
         IN UpsertFrom(
               IF Len(existing) > 0
               THEN [st EXCEPT !.table = SqlUpdateContent(st.table, id, p, e, now),
                               !.clock = now,
                               !.uuid = IF fresh THEN @ + 1 ELSE @,
                               !.updated_ids = Append(@, id)]
               ELSE [st EXCEPT !.table = SqlInsertContent(st.table, id, p, e, now),
                               !.clock = now,
                               !.uuid = IF fresh THEN @ + 1 ELSE @,
                               !.created_ids = Append(@, id)],
               prefix, p, entries, i + 1)

Upsert(table, prefix, p, entries) ==
    UpsertFrom([table |-> table, clock |-> clock, uuid |-> uuidCtr,
                created_ids |-> <<>>, updated_ids |-> <<>>], prefix, p, entries, 1)

\* PostgreSQLContentStorage.upsert_faqs
UpsertFaqs(p, entries) ==
    /\ backend = "postgresql" /\ family = "content" /\ ops < MaxOps
    /\ LET st == Upsert(faqs, "faq", p, entries) IN
       /\ faqs' = st.table
       /\ clock' = st.clock
       /\ uuidCtr' = st.uuid
       /\ last' = [exc |-> "", op |-> "upsert_faqs", key |-> <<p>>, arg |-> entries,
                   ret |-> <<st.created_ids, st.updated_ids>>]
    /\ ops' = ops + 1
    /\ UNCHANGED <<backend, family, depVars, audVars, prvVars, kb_articles, projects, vecVars, attVars, conVars>>

\* PostgreSQLContentStorage.delete_faq
DeleteFaq(p, id) ==
    /\ backend = "postgresql" /\ family = "content" /\ ops < MaxOps
    /\ LET rowcount == Len(SqlSelectById(faqs, id, p)) IN
       /\ faqs' = SqlDeleteById(faqs, id, p)
       /\ last' = [exc |-> "", op |-> "delete_faq", key |-> <<p, id>>, arg |-> None,
                   ret |-> DeleteReturn(ExecuteResult, rowcount), removed |-> rowcount]
    /\ clock' = clock + 1
    /\ ops' = ops + 1
    /\ UNCHANGED <<backend, family, depVars, audVars, prvVars, kb_articles, projects, vecVars, attVars, conVars, uuidCtr>>

\* PostgreSQLContentStorage.upsert_kb_articles
UpsertKbArticles(p, entries) ==
    /\ backend = "postgresql" /\ family = "content" /\ ops < MaxOps
    /\ LET st == Upsert(kb_articles, "kb", p, entries) IN
       /\ kb_articles' = st.table
       /\ clock' = st.clock
       /\ uuidCtr' = st.uuid
       /\ last' = [exc |-> "", op |-> "upsert_kb_articles", key |-> <<p>>, arg |-> entries,
                   ret |-> <<st.created_ids, st.updated_ids>>]
    /\ ops' = ops + 1
    /\ UNCHANGED <<backend, family, depVars, audVars, prvVars, faqs, projects, vecVars, attVars, conVars>>

\* PostgreSQLContentStorage.delete_kb_article
DeleteKbArticle(p, id) ==
    /\ backend = "postgresql" /\ family = "content" /\ ops < MaxOps
    /\ LET rowcount == Len(SqlSelectById(kb_articles, id, p)) IN
       /\ kb_articles' = SqlDeleteById(kb_articles, id, p)
       /\ last' = [exc |-> "", op |-> "delete_kb_article", key |-> <<p, id>>, arg |-> None,
                   ret |-> DeleteReturn(ExecuteResult, rowcount), removed |-> rowcount]
    /\ clock' = clock + 1
    /\ ops' = ops + 1
    /\ UNCHANGED <<backend, family, depVars, audVars, prvVars, faqs, projects, vecVars, attVars, conVars, uuidCtr>>

\* if faq.get('metadata'): try: json.loads(...) except: {}; else: {}
\* (the column holds text or NULL; None and the empty text are falsy)
ParseMetadata(column) ==
    IF column = Nothing THEN {}
    ELSE IF Len(The(column)) = 0 THEN {}
    ELSE IF JsonParses(The(column)) THEN JsonLoads(The(column))
    ELSE {}

\* the dict the getters build of one row
ReadEntity(r) == [r EXCEPT !.metadata = ParseMetadata(r.metadata)]

\* SELECT ... FROM <table> WHERE project_id = %s ORDER BY created_at, each row read
GetContent(table, p) ==
    LET results == SelectSeq(table, LAMBDA r : r.project_id = p)
    IN  [i \in 1..Len(results) |-> ReadEntity(results[i])]

\* SELECT ... FROM <table> WHERE id = %s AND project_id = %s; None when no row
GetContentById(table, p, id) ==
    LET result == SqlSelectById(table, id, p)
    IN  IF Len(result) = 0 THEN None ELSE ReadEntity(result[1])

Got(op, key, ret) ==
    /\ backend = "postgresql" /\ family = "content" /\ ops < MaxOps
    /\ last' = [exc |-> "", op |-> op, key |-> key, arg |-> None, ret |-> ret]
    /\ ops' = ops + 1
    /\ UNCHANGED <<backend, family, depVars, audVars, prvVars, cntVars, vecVars, attVars,
                   conVars, uuidCtr>>

\* PostgreSQLContentStorage.get_faqs
GetFaqs(p) == Got("get_faqs", <<p>>, GetContent(faqs, p))

\* PostgreSQLContentStorage.get_faq_by_id
GetFaqById(p, id) == Got("get_faq_by_id", <<p, id>>, GetContentById(faqs, p, id))

\* PostgreSQLContentStorage.get_kb_articles
GetKbArticles(p) == Got("get_kb_articles", <<p>>, GetContent(kb_articles, p))

\* PostgreSQLContentStorage.get_kb_article_by_id
GetKbArticleById(p, id) ==
    Got("get_kb_article_by_id", <<p, id>>, GetContentById(kb_articles, p, id))

\* what a metadata column can hold that no upsert wrote: NULL, the empty text, a text
\* cut short, a text that is no JSON
DamagedMetadata ==
    {Nothing, Some(<<>>), Some(<<"{", "source", ":">>), Some(<<"oops">>)}

\* the metadata column of one row is changed outside the store; the row has, until
\* then, a text that parses
DamageMetadata(kind, i, column) ==
    /\ backend = "postgresql" /\ family = "content"
    /\ column \in DamagedMetadata
    /\ LET table == IF kind = "faq" THEN faqs ELSE kb_articles IN
       /\ i \in 1..Len(table)
       /\ table[i].metadata # Nothing /\ JsonParses(The(table[i].metadata))
       /\ faqs' = IF kind = "faq" THEN [faqs EXCEPT ![i].metadata = column] ELSE faqs
       /\ kb_articles' = IF kind = "faq" THEN kb_articles
                         ELSE [kb_articles EXCEPT ![i].metadata = column]
    /\ ops < MaxOps
    /\ last' = [exc |-> "", op |-> "damage", key |-> <<kind, i>>, arg |-> column, ret |-> None]
    /\ ops' = ops + 1
    /\ UNCHANGED <<backend, family, depVars, audVars, prvVars, clock, projects, vecVars, attVars,
                   conVars, uuidCtr>>

\* the names of the projects and their order under ORDER BY name
ProjectNames == {"Alpha", "Beta"}
NameLeq(a, b) == a = b \/ (a = "Alpha" /\ b = "Beta")

\* SELECT ... FROM projects WHERE id = %s
SqlSelectProject(table, id) == SelectSeq(table, LAMBDA r : r.id = id)

\* the UPDATE without the active column
SqlUpdateProjectName(table, id, name, active, now) ==
    [i \in 1..Len(table) |->
        IF table[i].id = id THEN [table[i] EXCEPT !.name = name, !.updated_at = now]
        ELSE table[i]]

\* UPDATE projects SET name = %s, active = %s, updated_at = CURRENT_TIMESTAMP WHERE id = %s
SqlUpdateProject(table, id, name, active, now) ==
    [i \in 1..Len(table) |->
        IF table[i].id = id
        THEN [table[i] EXCEPT !.name = name, !.active = active, !.updated_at = now]
        ELSE table[i]]

\* INSERT INTO projects (id, name, active) VALUES (%s, %s, %s)
SqlInsertProject(table, id, name, active, now) ==
    Append(table, [id |-> id, name |-> name, active |-> active,
                   created_at |-> now, updated_at |-> now])

\* DELETE FROM projects WHERE id = %s
SqlDeleteProject(table, id) == SelectSeq(table, LAMBDA r : r.id # id)

\* the rows a SELECT ... [WHERE active = TRUE] ORDER BY name gives
SqlSelectProjects(table, active_only) ==
    SelectSeq(table, LAMBDA r : ~active_only \/ r.active)

\* the orders ORDER BY name allows for these rows: rows of one name in any order
OrderedByName(rows) ==
    { [i \in 1..Len(rows) |-> rows[f[i]]] :
        f \in { g \in [1..Len(rows) -> 1..Len(rows)] :
                  /\ \A i, j \in 1..Len(rows) : i # j => g[i] # g[j]
                  /\ \A i, j \in 1..Len(rows) :
                        i < j => NameLeq(rows[g[i]].name, rows[g[j]].name) } }

\* PostgreSQLContentStorage.create_or_update_project
CreateOrUpdateProject(id, name, active) ==
    /\ backend = "postgresql" /\ family = "content" /\ ops < MaxOps
    /\ LET existing == SqlSelectProject(projects, id)
           now      == clock + 1
       IN  /\ projects' = IF Len(existing) > 0
                          THEN SqlUpdateProject(projects, id, name, active, now)
                          ELSE SqlInsertProject(projects, id, name, active, now)
           /\ clock' = now
           /\ last' = [exc |-> "", op |-> "create_or_update_project", key |-> <<id>>,
                       arg |-> [name |-> name, active |-> active],
                       ret |-> (Len(existing) = 0)]
    /\ ops' = ops + 1
    /\ UNCHANGED <<backend, family, depVars, audVars, prvVars, faqs, kb_articles, vecVars,
                   attVars, conVars, uuidCtr>>

\* PostgreSQLContentStorage.get_project
GetProject(id) ==
    /\ backend = "postgresql" /\ family = "content" /\ ops < MaxOps
    /\ LET result == SqlSelectProject(projects, id) IN
       last' = [exc |-> "", op |-> "get_project", key |-> <<id>>, arg |-> None,
                ret |-> IF Len(result) > 0 THEN result[1] ELSE None]
    /\ ops' = ops + 1
    /\ UNCHANGED <<backend, family, depVars, audVars, prvVars, cntVars, vecVars, attVars,
                   conVars, uuidCtr>>

\* PostgreSQLContentStorage.list_projects
ListProjects(active_only) ==
    /\ backend = "postgresql" /\ family = "content" /\ ops < MaxOps
    /\ \E results \in OrderedByName(SqlSelectProjects(projects, active_only)) :
          last' = [exc |-> "", op |-> "list_projects", key |-> <<"">>, arg |-> active_only,
                   ret |-> results]
    /\ ops' = ops + 1
    /\ UNCHANGED <<backend, family, depVars, audVars, prvVars, cntVars, vecVars, attVars,
                   conVars, uuidCtr>>

\* PostgreSQLContentStorage.delete_project; what the schema cascades to is not part
\* of the statement
DeleteProject(id) ==
    /\ backend = "postgresql" /\ family = "content" /\ ops < MaxOps
    /\ LET existing == SqlSelectProject(projects, id) IN
       /\ projects' = IF Len(existing) = 0 THEN projects ELSE SqlDeleteProject(projects, id)
       /\ clock' = IF Len(existing) = 0 THEN clock ELSE clock + 1
       /\ last' = [exc |-> "", op |-> "delete_project", key |-> <<id>>, arg |-> None,
                   ret |-> (Len(existing) > 0)]
    /\ ops' = ops + 1
    /\ UNCHANGED <<backend, family, depVars, audVars, prvVars, faqs, kb_articles, vecVars,
                   attVars, conVars, uuidCtr>>

(***************************************************************************)
(* The audit store: class DB of storage.py over SQLite, opened in legacy   *)
(* mode (DB(path)) or through the interface layer (DB(backend='sqlite'))   *)
(***************************************************************************)
\* the outcome of a statement: the exception it raised ("" for none) and the table after it
Done(table)         == [exc |-> "", table |-> table]
Raised(exc, table)  == [exc |-> exc, table |-> table]

\* the statements of DB are written with ? placeholders, which sqlite3 binds; psycopg2
\* formats the statement with % and raises TypeError when given parameters it finds
\* no placeholder for, before anything reaches the server
Qmark == backend # "postgresql"
Execute(table, out) == IF Qmark THEN out ELSE Raised("TypeError", table)

\* the sessions table declares id and token_jti unique (schema.sql)
SessionKeyTaken(table, id, jti) ==
    \E i \in 1..Len(table) : table[i].id = id \/ table[i].token_jti = jti

\* INSERT OR IGNORE: a duplicate is dropped without an error
SqlInsertOrIgnoreSession(table, s) ==
    IF SessionKeyTaken(table, s.id, s.token_jti) THEN Done(table)
    ELSE Done(Append(table, [id |-> s.id, token_jti |-> s.token_jti,
                             client_name |-> s.client_name, scopes |-> s.scopes,
                             issued_at |-> s.issued_at, expires_at |-> s.expires_at,
                             ip_lock |-> s.ip_lock, disabled |-> 0]))

\* INSERT INTO sessions(id, token_jti, client_name, scopes, issued_at, expires_at,
\* ip_lock, disabled) VALUES (?,?,?,?,?,?,?,0); the statement fails on a taken key and
\* execute() lets the exception pass (the with-block of the connection rolls back)
SqlInsertSession(table, s) ==
    IF SessionKeyTaken(table, s.id, s.token_jti) THEN Raised("IntegrityError", table)
    ELSE Done(Append(table, [id |-> s.id, token_jti |-> s.token_jti,
                             client_name |-> s.client_name, scopes |-> s.scopes,
                             issued_at |-> s.issued_at, expires_at |-> s.expires_at,
                             ip_lock |-> s.ip_lock, disabled |-> 0]))

\* UPDATE sessions SET disabled = 1 - disabled WHERE id=?
SqlToggleSession(table, id) ==
    [i \in 1..Len(table) |->
        IF table[i].id = id THEN [table[i] EXCEPT !.disabled = 1 - @] ELSE table[i]]

\* UPDATE sessions SET disabled=1 WHERE id=?
SqlDisableSession(table, id) ==
    [i \in 1..Len(table) |->
        IF table[i].id = id THEN [table[i] EXCEPT !.disabled = 1] ELSE table[i]]

\* rows[0] if rows else None, for a SELECT ... LIMIT 1
FirstOrNone(matching) == IF Len(matching) = 0 THEN None ELSE matching[1]

\* the disabled flag of the session with this id, None when there is none
DisabledFlag(table, id) ==
    LET found == SelectSeq(table, LAMBDA r : r.id = id)
    IN  IF Len(found) = 0 THEN None ELSE found[1].disabled

\* DB.create_session
CreateSession(s) ==
    /\ family = "audit" /\ ops < MaxOps
    /\ LET out == Execute(sessions, SqlInsertSession(sessions, s)) IN
       /\ sessions' = out.table
       /\ last' = [exc |-> out.exc, op |-> "create_session", key |-> <<s.id>>, arg |-> s,
                   ret |-> None]
    /\ ops' = ops + 1
    /\ UNCHANGED <<backend, family, depVars, traces, metaColumn, prvVars, cntVars, vecVars, attVars, conVars, uuidCtr>>

\* DB.disable_session
DisableSession(id) ==
    /\ family = "audit" /\ ops < MaxOps
    /\ LET out == Execute(sessions, Done(SqlDisableSession(sessions, id))) IN
       /\ sessions' = out.table
       /\ last' = [exc |-> out.exc, op |-> "disable_session", key |-> <<id>>, arg |-> None,
                   ret |-> None, was |-> DisabledFlag(sessions, id)]
    /\ ops' = ops + 1
    /\ UNCHANGED <<backend, family, depVars, traces, metaColumn, prvVars, cntVars, vecVars, attVars, conVars, uuidCtr>>

\* DB.get_session_by_id
GetSessionById(id) ==
    /\ family = "audit" /\ ops < MaxOps
    /\ last' = [exc |-> Execute(sessions, Done(sessions)).exc, op |-> "get_session_by_id",
                key |-> <<id>>, arg |-> None,
                ret |-> IF Qmark THEN FirstOrNone(SelectSeq(sessions, LAMBDA r : r.id = id))
                        ELSE None]
    /\ ops' = ops + 1
    /\ UNCHANGED <<backend, family, depVars, audVars, prvVars, cntVars, vecVars, attVars, conVars, uuidCtr>>

\* DB.get_session_by_jti
GetSessionByJti(jti) ==
    /\ family = "audit" /\ ops < MaxOps
    /\ last' = [exc |-> Execute(sessions, Done(sessions)).exc, op |-> "get_session_by_jti",
                key |-> <<jti>>, arg |-> None,
                ret |-> IF Qmark THEN FirstOrNone(SelectSeq(sessions, LAMBDA r : r.token_jti = jti))
                        ELSE None]
    /\ ops' = ops + 1
    /\ UNCHANGED <<backend, family, depVars, audVars, prvVars, cntVars, vecVars, attVars, conVars, uuidCtr>>

\* the traces table declares id unique (schema.sql)
TraceKeyTaken(table, id) == \E i \in 1..Len(table) : table[i].id = id

\* INSERT INTO traces(id, ts, method, path, status, latency_ms, ip, ua, headers_slim,
\* query, body_sha256, token_sub, error) VALUES (?,...)
SqlInsertTrace(table, t) ==
    IF TraceKeyTaken(table, t.id) THEN Raised("IntegrityError", table)
    ELSE Done(Append(table, [id |-> t.id, ts |-> t.ts, method |-> t.method, path |-> t.path,
                             status |-> t.status, latency_ms |-> t.latency_ms, ip |-> t.ip,
                             ua |-> t.ua, headers_slim |-> t.headers_slim, query |-> t.query,
                             body_sha256 |-> t.body_sha256, token_sub |-> t.token_sub,
                             error |-> t.error, metadata |-> Nothing]))

\* UPDATE traces SET metadata = ? without the WHERE clause
SqlUpdateEveryTraceMetadata(table, id, metadata_json) ==
    IF ~metaColumn THEN Raised("OperationalError", table)
    ELSE Done([i \in 1..Len(table) |-> [table[i] EXCEPT !.metadata = Some(metadata_json)]])

\* UPDATE traces SET metadata = ? WHERE id = ?; fails when the table has no such column
SqlUpdateTraceMetadata(table, id, metadata_json) ==
    IF ~metaColumn THEN Raised("OperationalError", table)
    ELSE Done([i \in 1..Len(table) |->
                  IF table[i].id = id THEN [table[i] EXCEPT !.metadata = Some(metadata_json)]
                  ELSE table[i]])

\* SQLite folds the ASCII letters when LIKE compares two characters
Fold(ch) == CASE ch = "A" -> "a" [] ch = "B" -> "b" [] OTHER -> ch

\* text LIKE pattern: % stands for any run of characters, _ for any one character
RECURSIVE LikeMatch(_, _)
LikeMatch(pattern, text) ==
    IF Len(pattern) = 0 THEN Len(text) = 0
    ELSE IF Head(pattern) = "%"
         THEN \E k \in 0..Len(text) :
                 LikeMatch(Tail(pattern), SubSeq(text, k + 1, Len(text)))
         ELSE /\ Len(text) > 0
              /\ (Head(pattern) = "_" \/ Fold(Head(pattern)) = Fold(Head(text)))
              /\ LikeMatch(Tail(pattern), Tail(text))

\* Python truth of an optional string, and of an optional list of characters
TruthyStr(o)  == o # Nothing /\ o # Some("")
TruthyPath(o) == o # Nothing /\ o # Some(<<>>)

\* the WHERE clause list_traces builds; f holds the arguments and the time of the call
TraceMatches(r, f) ==
    /\ f.since # Nothing => r.ts >= The(f.since)
    /\ f.since_seconds # Nothing => r.ts >= f.now - The(f.since_seconds)
    /\ f.status # Nothing => r.status = The(f.status)
    /\ TruthyPath(f.path) => LikeMatch(<<"%">> \o The(f.path) \o <<"%">>, r.path)
    /\ TruthyStr(f.ip) => r.ip = The(f.ip)
    /\ f.has_error # Nothing => (IF The(f.has_error) THEN r.error # Nothing ELSE r.error = Nothing)

\* ORDER BY ts DESC LIMIT ?: every order the clause allows (rows of equal ts come in
\* any order), cut by the limit; SQLite reads a negative limit as no limit
ListTraces(table, f) ==
    LET hit   == SelectSeq(table, LAMBDA r : TraceMatches(r, f))
        n     == Len(hit)
        perms == {g \in [1..n -> 1..n] :
                     /\ \A i, j \in 1..n : i # j => g[i] # g[j]
                     /\ \A i, j \in 1..n : i < j => hit[g[i]].ts >= hit[g[j]].ts}
        cut   == IF f.limit < 0 THEN n ELSE Min(f.limit, n)
    IN  {SubSeq([i \in 1..n |-> hit[g[i]]], 1, cut) : g \in perms}

\* number of rows r with lo <= int(r["status"]) < hi
CountStatus(table, lo, hi) == Len(SelectSeq(table, LAMBDA r : lo <= r.status /\ r.status < hi))

\* top_paths[p] = top_paths.get(p, 0) + 1 over the rows: the (path, count) pairs in
\* the order in which the paths were first seen
RECURSIVE PathCounts(_)
PathCounts(window) ==
    IF Len(window) = 0 THEN <<>>
    ELSE LET before == PathCounts(SubSeq(window, 1, Len(window) - 1))
             p      == window[Len(window)].path
         IN  IF \E i \in 1..Len(before) : before[i][1] = p
             THEN [i \in 1..Len(before) |->
                      IF before[i][1] = p THEN <<p, before[i][2] + 1>> ELSE before[i]]
             ELSE Append(before, <<p, 1>>)

\* sorted ascending by count and then reversed: equal counts come in reverse order
RECURSIVE SortByCountReversed(_)
SortByCountReversed(items) ==
    IF Len(items) <= 1 THEN items
    ELSE LET sorted == SortByCountReversed(SubSeq(items, 1, Len(items) - 1))
             x      == items[Len(items)]
             k      == Cardinality({i \in 1..Len(sorted) : sorted[i][2] > x[2]})
         IN  SubSeq(sorted, 1, k) \o <<x>> \o SubSeq(sorted, k + 1, Len(sorted))

\* sorted(items, key=lambda kv: kv[1], reverse=True): stable, equal counts keep their order
RECURSIVE SortByCount(_)
SortByCount(items) ==
    IF Len(items) <= 1 THEN items
    ELSE LET sorted == SortByCount(SubSeq(items, 1, Len(items) - 1))
             x      == items[Len(items)]
             k      == Cardinality({i \in 1..Len(sorted) : sorted[i][2] >= x[2]})
         IN  SubSeq(sorted, 1, k) \o <<x>> \o SubSeq(sorted, k + 1, Len(sorted))

\* latencies.sort(): ascending
RECURSIVE SortAscending(_)
SortAscending(xs) ==
    IF Len(xs) <= 1 THEN xs
    ELSE LET sorted == SortAscending(SubSeq(xs, 1, Len(xs) - 1))
             x      == xs[Len(xs)]
             k      == Cardinality({i \in 1..Len(sorted) : sorted[i] <= x})
         IN  SubSeq(sorted, 1, k) \o <<x>> \o SubSeq(sorted, k + 1, Len(sorted))

\* round(0.95 * (len(latencies) - 1)): the nearest index, not the one below
P95IndexNearest(n) == (95 * (n - 1) + 50) \div 100

\* int(0.95 * (len(latencies) - 1))
P95Index(n) == (95 * (n - 1)) \div 100

\* how many (path, count) pairs metrics_summary reports
TopPaths == 10

\* DB.metrics_summary over the rows with ts >= now - window_seconds
MetricsSummary(table, window_seconds, now) ==
    LET window    == SelectSeq(table, LAMBDA r : r.ts >= now - window_seconds)
        latencies == SortAscending([i \in 1..Len(window) |-> window[i].latency_ms])
        top       == SortByCount(PathCounts(window))
    IN  [window       |-> IF window_seconds % 3600 # 0
                          THEN <<window_seconds \div 60, "m">>
                          ELSE <<window_seconds \div 3600, "h">>,
         total        |-> Len(window),
         by_status    |-> [c2xx |-> CountStatus(window, 200, 300),
                           c4xx |-> CountStatus(window, 400, 500),
                           c5xx |-> CountStatus(window, 500, 600)],
         top_paths    |-> SubSeq(top, 1, Min(TopPaths, Len(top))),
         unauthorized |-> CountStatus(window, 401, 402),
         p95_latency_ms |-> IF Len(latencies) = 0 THEN None
                            ELSE latencies[P95Index(Len(latencies)) + 1]]

\* DB.insert_trace
InsertTrace(t) ==
    /\ family = "audit" /\ ops < MaxOps
    /\ LET out == Execute(traces, SqlInsertTrace(traces, t)) IN
       /\ traces' = out.table
       /\ last' = [exc |-> out.exc, op |-> "insert_trace", key |-> <<t.id>>, arg |-> t,
                   ret |-> None]
    /\ ops' = ops + 1
    /\ UNCHANGED <<backend, family, depVars, sessions, metaColumn, prvVars, cntVars, vecVars, attVars, conVars, uuidCtr>>

\* DB.list_traces
ListTracesCall(f) ==
    /\ family = "audit" /\ ops < MaxOps
    /\ \E res \in ListTraces(traces, f) :
          last' = [exc |-> Execute(traces, Done(traces)).exc, op |-> "list_traces",
                   key |-> <<>>, arg |-> f, ret |-> IF Qmark THEN res ELSE None]
    /\ ops' = ops + 1
    /\ UNCHANGED <<backend, family, depVars, audVars, prvVars, cntVars, vecVars, attVars, conVars, uuidCtr>>

\* DB.metrics_summary
MetricsSummaryCall(window_seconds, now) ==
    /\ family = "audit" /\ ops < MaxOps
    /\ last' = [exc |-> Execute(traces, Done(traces)).exc, op |-> "metrics_summary",
                key |-> <<>>, arg |-> [window_seconds |-> window_seconds, now |-> now],
                ret |-> IF Qmark THEN MetricsSummary(traces, window_seconds, now) ELSE None]
    /\ ops' = ops + 1
    /\ UNCHANGED <<backend, family, depVars, audVars, prvVars, cntVars, vecVars, attVars, conVars, uuidCtr>>

\* DB.add_trace_metadata: nothing for an empty trace id; every exception is swallowed
AddTraceMetadata(trace_id, metadata) ==
    /\ family = "audit" /\ ops < MaxOps
    /\ LET out == IF trace_id = "" THEN Done(traces)
                  ELSE IF ~metadata.serializable THEN Done(traces)
                  ELSE Execute(traces, SqlUpdateTraceMetadata(traces, trace_id,
                                                              JsonDumps(metadata.value)))
       IN
       /\ traces' = out.table
       /\ last' = [exc |-> "", op |-> "add_trace_metadata", key |-> <<trace_id>>,
                   arg |-> metadata, ret |-> None]
    /\ ops' = ops + 1
    /\ UNCHANGED <<backend, family, depVars, sessions, metaColumn, prvVars, cntVars, vecVars, attVars, conVars, uuidCtr>>

(***************************************************************************)
(* Concurrent callers. The file backends take no lock: a call is a         *)
(* sequence of file reads and writes. _save_* opens the file with mode     *)
(* 'w', which empties it, and then dumps the JSON text; a load between     *)
(* the two finds no JSON and yields the empty collection. The relational   *)
(* backend runs every execute and query under the provider's lock and      *)
(* commits it, so each statement is one step.                              *)
(***************************************************************************)
\* the frame of a call: its arguments and local variables
Frame(op, key, arg) ==
    [op |-> op, key |-> key, arg |-> arg, ret |-> None,
     data |-> <<>>,        \* the collection loaded and mutated, to be saved
     id |-> None,          \* the id generated by the call
     name |-> <<>>,        \* the content file the call works on
     result |-> None,      \* what the call returns once its save is done
     replaces |-> FALSE,   \* store_embedding: the key had a live record when the call began
     raced |-> FALSE,      \* another caller wrote the file since this call opened it
     during |-> {},        \* get_embeddings: keys under replacement by others when it read
     exc |-> "",           \* the exception the call is about to raise, "" for none
     conn |-> "",          \* provider call: the connection it holds, "" for none
     done |-> 0,           \* provider call: the rows of its batch executed so far
     call |-> 0]           \* the number of the call among all calls, where a step sets it

Idle == Frame("none", <<"", "", "">>, None)

\* the other callers that have the same file open for writing
Writers(c, at, p) == {d \in Callers \ {c} : pc[d] = at /\ loc[d].key[1] = p}

\* a dump into a file that another caller wrote meanwhile leaves this call's text
\* or a text that is no JSON (read back as the empty collection)
DumpOutcomes(c) == IF loc[c].raced THEN {loc[c].data, <<>>} ELSE {loc[c].data}

\* a record under key k is in the list
HasKey(embeddings, k) ==
    \E i \in 1..Len(embeddings) :
        embeddings[i].content_type = k[2] /\ embeddings[i].content_id = k[3]

\* the keys other callers are replacing right now, as far as a read of (p, ct) shows them
UnderReplacement(c, p, ct) ==
    {loc[w].key : w \in {w \in Callers \ {c} :
        /\ pc[w] # "idle" /\ loc[w].op = "store_embedding" /\ loc[w].replaces
        /\ loc[w].key[1] = p /\ (ct = "" \/ ct = loc[w].key[2])}}

\* a delete of key k took effect: stores of k under way no longer replace a live record
Unreplace(f, c, k) ==
    [d \in Callers |-> IF d # c /\ f[d].op = "store_embedding" /\ f[d].key = k
                       THEN [f[d] EXCEPT !.replaces = FALSE] ELSE f[d]]

\* LocalVectorStorage.store_embedding up to the call of _save_embeddings
CLocalStoreLoad(c, k, pl) ==
    /\ backend = "local" /\ family = "vector"
    /\ pc[c] = "idle" /\ ops < MaxOps
    /\ LET id == Uuid4(uuidCtr + 1) IN
       loc' = [loc EXCEPT ![c] =
                 [Frame("store_embedding", k, pl) EXCEPT
                    !.data = LocalStored(embFile[k[1]], id, k[1], k[2], k[3], pl),
                    !.id = id, !.result = id,
                    !.replaces = HasKey(embFile[k[1]], k)]]
    /\ pc' = [pc EXCEPT ![c] = "emb_open"]
    /\ uuidCtr' = uuidCtr + 1
    /\ ops' = ops + 1
    /\ UNCHANGED <<backend, family, depVars, audVars, prvVars, cntVars, vecVars, attVars, last>>

\* LocalVectorStorage.delete_embedding up to the call of _save_embeddings or its return
CLocalDeleteLoad(c, k) ==
    /\ backend = "local" /\ family = "vector"
    /\ pc[c] = "idle" /\ ops < MaxOps
    /\ LET kept == RemoveKey(embFile[k[1]], k[2], k[3]) IN
       IF Len(kept) < Len(embFile[k[1]])
       THEN /\ loc' = [loc EXCEPT ![c] =
                         [Frame("delete_embedding", k, None) EXCEPT
                            !.data = kept, !.result = TRUE]]
            /\ pc' = [pc EXCEPT ![c] = "emb_open"]
       ELSE /\ loc' = [loc EXCEPT ![c] =
                         [Frame("delete_embedding", k, None) EXCEPT !.ret = FALSE]]
            /\ pc' = pc
    /\ ops' = ops + 1
    /\ UNCHANGED <<backend, family, depVars, audVars, prvVars, cntVars, vecVars, attVars, uuidCtr, last>>

\* _save_embeddings: open(embeddings_file, 'w')
CSaveEmbeddingsOpen(c) ==
    /\ pc[c] = "emb_open"
    /\ embFile' = [embFile EXCEPT ![loc[c].key[1]] = <<>>]
    /\ loc' = [loc EXCEPT ![c].raced = FALSE]
    /\ pc' = [pc EXCEPT ![c] = "emb_dump"]
    /\ UNCHANGED <<backend, family, depVars, audVars, prvVars, cntVars, vecTable, vecSerial, attVars, uuidCtr, last, ops>>

\* _save_embeddings: json.dump, and the return of the call
CSaveEmbeddingsDump(c) ==
    /\ pc[c] = "emb_dump"
    /\ \E text \in DumpOutcomes(c) :
          embFile' = [embFile EXCEPT ![loc[c].key[1]] = text]
    /\ LET others == Writers(c, "emb_dump", loc[c].key[1])
           marked == [d \in Callers |->
                        IF d = c THEN [loc[c] EXCEPT !.ret = loc[c].result]
                        ELSE IF d \in others THEN [loc[d] EXCEPT !.raced = TRUE]
                        ELSE loc[d]]
       IN loc' = IF loc[c].op = "delete_embedding"
                 THEN Unreplace(marked, c, loc[c].key) ELSE marked
    /\ pc' = [pc EXCEPT ![c] = "idle"]
    /\ UNCHANGED <<backend, family, depVars, audVars, prvVars, cntVars, vecTable, vecSerial, attVars, uuidCtr, last, ops>>

\* LocalVectorStorage.get_embeddings: one read of the file
CLocalGetEmbeddings(c, p, ct) ==
    /\ backend = "local" /\ family = "vector"
    /\ pc[c] = "idle" /\ ops < MaxOps
    /\ loc' = [loc EXCEPT ![c] =
                 [Frame("get_embeddings", <<p, ct, "">>, None) EXCEPT
                    !.ret = LocalGetEmbeddings(embFile[p], ct),
                    !.during = UnderReplacement(c, p, ct)]]
    /\ ops' = ops + 1
    /\ UNCHANGED <<backend, family, depVars, audVars, prvVars, cntVars, vecVars, attVars, uuidCtr, last, pc>>

\* PostgreSQLVectorStorage.store_embedding: the DELETE statement
CPgStoreDelete(c, k, pl) ==
    /\ backend = "postgresql" /\ family = "vector"
    /\ pc[c] = "idle" /\ ops < MaxOps
    /\ loc' = [loc EXCEPT ![c] =
                 [Frame("store_embedding", k, pl) EXCEPT
                    !.replaces = Len(SqlSelectIds(vecTable, k[1], k[2], k[3])) > 0]]
    /\ vecTable' = SqlDeleteEmbedding(vecTable, k[1], k[2], k[3])
    /\ pc' = [pc EXCEPT ![c] = "pg_insert"]
    /\ ops' = ops + 1
    /\ UNCHANGED <<backend, family, depVars, audVars, prvVars, cntVars, embFile, vecSerial, attVars, uuidCtr, last>>

\* PostgreSQLVectorStorage.store_embedding: the INSERT statement
CPgStoreInsert(c) ==
    /\ pc[c] = "pg_insert"
    /\ LET k == loc[c].key  pl == loc[c].arg IN
       vecTable' = SqlInsertEmbedding(vecTable, vecSerial + 1, k[1], k[2], k[3],
                                      pl.title, pl.content, EmbeddingStr(pl.embedding),
                                      JsonDumps(MetadataOrEmpty(pl.metadata)))
    /\ vecSerial' = vecSerial + 1
    /\ pc' = [pc EXCEPT ![c] = "pg_select"]
    /\ UNCHANGED <<backend, family, depVars, audVars, prvVars, cntVars, embFile, attVars, uuidCtr, last, ops, loc>>

\* PostgreSQLVectorStorage.store_embedding: the SELECT of the id, and the return
CPgStoreSelect(c) ==
    /\ pc[c] = "pg_select"
    /\ LET k == loc[c].key IN
       loc' = [loc EXCEPT ![c].ret = PgReturnedId(SqlSelectIds(vecTable, k[1], k[2], k[3]))]
    /\ pc' = [pc EXCEPT ![c] = "idle"]
    /\ UNCHANGED <<backend, family, depVars, audVars, prvVars, cntVars, vecVars, attVars, uuidCtr, last, ops>>

\* PostgreSQLVectorStorage.delete_embedding: the SELECT that checks for the record
CPgDeleteSelect(c, k) ==
    /\ backend = "postgresql" /\ family = "vector"
    /\ pc[c] = "idle" /\ ops < MaxOps
    /\ IF Len(SqlSelectIds(vecTable, k[1], k[2], k[3])) = 0
       THEN /\ loc' = [loc EXCEPT ![c] =
                         [Frame("delete_embedding", k, None) EXCEPT !.ret = FALSE]]
            /\ pc' = pc
       ELSE /\ loc' = [loc EXCEPT ![c] = Frame("delete_embedding", k, None)]
            /\ pc' = [pc EXCEPT ![c] = "pg_delete"]
    /\ ops' = ops + 1
    /\ UNCHANGED <<backend, family, depVars, audVars, prvVars, cntVars, vecVars, attVars, uuidCtr, last>>

\* PostgreSQLVectorStorage.delete_embedding: the DELETE statement, and the return
CPgDeleteExecute(c) ==
    /\ pc[c] = "pg_delete"
    /\ LET k == loc[c].key IN
       /\ vecTable' = SqlDeleteEmbedding(vecTable, k[1], k[2], k[3])
       /\ loc' = Unreplace([loc EXCEPT ![c].ret = TRUE], c, k)
    /\ pc' = [pc EXCEPT ![c] = "idle"]
    /\ UNCHANGED <<backend, family, depVars, audVars, prvVars, cntVars, embFile, vecSerial, attVars, uuidCtr, last, ops>>

\* PostgreSQLVectorStorage.get_embeddings: one query
CPgGetEmbeddings(c, p, ct) ==
    /\ backend = "postgresql" /\ family = "vector"
    /\ pc[c] = "idle" /\ ops < MaxOps
    /\ loc' = [loc EXCEPT ![c] =
                 [Frame("get_embeddings", <<p, ct, "">>, None) EXCEPT
                    !.ret = PgGetEmbeddings(vecTable, p, ct),
                    !.during = UnderReplacement(c, p, ct)]]
    /\ ops' = ops + 1
    /\ UNCHANGED <<backend, family, depVars, audVars, prvVars, cntVars, vecVars, attVars, uuidCtr, last, pc>>

\* LocalAttachmentStorage.store_file: the content file is written
CLocalStoreFileWrite(c, k, fl) ==
    /\ backend = "local" /\ family = "attachment"
    /\ pc[c] = "idle" /\ ops < MaxOps
    /\ LET file_id == Uuid4(uuidCtr + 1)
           name    == StorageFilename(file_id, fl.filename)
       IN
       /\ contentFiles' = [contentFiles EXCEPT ![k[1]] = Put(@, name, fl.content)]
       /\ loc' = [loc EXCEPT ![c] =
                    [Frame("store_file", k, fl) EXCEPT
                       !.id = file_id, !.name = name, !.result = file_id]]
    /\ pc' = [pc EXCEPT ![c] = "meta_load"]
    /\ uuidCtr' = uuidCtr + 1
    /\ ops' = ops + 1
    /\ UNCHANGED <<backend, family, depVars, audVars, prvVars, cntVars, vecVars, metaFile, attTable, attSerial, issued, last>>

\* LocalAttachmentStorage.store_file: _load_metadata and metadata[file_id] = {...}
CLocalStoreFileLoad(c) ==
    /\ pc[c] = "meta_load"
    /\ LET k  == loc[c].key
           fl == loc[c].arg
       IN loc' = [loc EXCEPT ![c].data =
                    MetaSet(metaFile[k[1]], loc[c].id,
                            LocalFileMeta(loc[c].id, k[1], k[2], k[3],
                                          fl.filename, fl.content, fl.mime_type))]
    /\ pc' = [pc EXCEPT ![c] = "meta_open"]
    /\ UNCHANGED <<backend, family, depVars, audVars, prvVars, cntVars, vecVars, attVars, uuidCtr, last, ops>>

\* LocalAttachmentStorage.delete_file: _load_metadata and the check of the record
CLocalDeleteFileLoad(c, p, n) ==
    /\ backend = "local" /\ family = "attachment"
    /\ pc[c] = "idle" /\ ops < MaxOps
    /\ LET file_id   == Uuid4(n)
           file_meta == MetaGet(metaFile[p], file_id)
       IN IF file_meta = None
          THEN /\ loc' = [loc EXCEPT ![c] =
                            [Frame("delete_file", <<p, file_id>>, None) EXCEPT !.ret = FALSE]]
               /\ pc' = pc
          ELSE /\ loc' = [loc EXCEPT ![c] =
                            [Frame("delete_file", <<p, file_id>>, None) EXCEPT
                               !.id = file_id, !.name = file_meta.filename,
                               !.data = metaFile[p], !.result = TRUE]]
               /\ pc' = [pc EXCEPT ![c] = "file_unlink"]
    /\ ops' = ops + 1
    /\ UNCHANGED <<backend, family, depVars, audVars, prvVars, cntVars, vecVars, attVars, uuidCtr, last>>

\* LocalAttachmentStorage.delete_file: unlink if the file exists, del metadata[file_id]
CLocalDeleteFileUnlink(c) ==
    /\ pc[c] = "file_unlink"
    /\ contentFiles' = [contentFiles EXCEPT ![loc[c].key[1]] = Drop(@, loc[c].name)]
    /\ loc' = [loc EXCEPT ![c].data = MetaDel(@, loc[c].id)]
    /\ pc' = [pc EXCEPT ![c] = "meta_open"]
    /\ UNCHANGED <<backend, family, depVars, audVars, prvVars, cntVars, vecVars, metaFile, attTable, attSerial, issued,
                   uuidCtr, last, ops>>

\* _save_metadata: open(metadata_file, 'w')
CSaveMetadataOpen(c) ==
    /\ pc[c] = "meta_open"
    /\ metaFile' = [metaFile EXCEPT ![loc[c].key[1]] = <<>>]
    /\ loc' = [loc EXCEPT ![c].raced = FALSE]
    /\ pc' = [pc EXCEPT ![c] = "meta_dump"]
    /\ UNCHANGED <<backend, family, depVars, audVars, prvVars, cntVars, vecVars, contentFiles, attTable, attSerial, issued,
                   uuidCtr, last, ops>>

\* _save_metadata: json.dump, and the return of the call
CSaveMetadataDump(c) ==
    /\ pc[c] = "meta_dump"
    /\ \E text \in DumpOutcomes(c) :
          metaFile' = [metaFile EXCEPT ![loc[c].key[1]] = text]
    /\ LET others == Writers(c, "meta_dump", loc[c].key[1]) IN
       loc' = [d \in Callers |->
                 IF d = c THEN [loc[c] EXCEPT !.ret = loc[c].result]
                 ELSE IF d \in others THEN [loc[d] EXCEPT !.raced = TRUE]
                 ELSE loc[d]]
    /\ pc' = [pc EXCEPT ![c] = "idle"]
    /\ UNCHANGED <<backend, family, depVars, audVars, prvVars, cntVars, vecVars, contentFiles, attTable, attSerial, issued,
                   uuidCtr, last, ops>>

\* LocalAttachmentStorage.retrieve_file: _load_metadata and metadata.get(file_id);
\* without a record the call raises
CLocalRetrieveLoad(c, p, n) ==
    /\ backend = "local" /\ family = "attachment"
    /\ pc[c] = "idle" /\ ops < MaxOps
    /\ LET file_id   == Uuid4(n)
           file_meta == MetaGet(metaFile[p], file_id)
       IN IF file_meta = None
          THEN /\ loc' = [loc EXCEPT ![c] =
                            [Frame("retrieve_file", <<p, file_id>>, None) EXCEPT
                               !.call = ops + 1, !.ret = [exc |-> "FileNotFoundError"]]]
               /\ pc' = pc
          ELSE /\ loc' = [loc EXCEPT ![c] =
                            [Frame("retrieve_file", <<p, file_id>>, None) EXCEPT
                               !.call = ops + 1, !.id = file_id, !.name = file_meta.filename,
                               !.data = <<file_meta>>]]
               /\ pc' = [pc EXCEPT ![c] = "file_exists"]
    /\ ops' = ops + 1
    /\ UNCHANGED <<backend, family, depVars, audVars, prvVars, cntVars, vecVars, attVars, uuidCtr, last>>

\* LocalAttachmentStorage.retrieve_file: if not file_path.exists(): raise
CLocalRetrieveExists(c) ==
    /\ pc[c] = "file_exists"
    /\ IF loc[c].name \in DOMAIN contentFiles[loc[c].key[1]]
       THEN /\ pc' = [pc EXCEPT ![c] = "file_read"]
            /\ UNCHANGED loc
       ELSE /\ pc' = [pc EXCEPT ![c] = "idle"]
            /\ loc' = [loc EXCEPT ![c].ret = [exc |-> "FileNotFoundError"]]
    /\ UNCHANGED <<backend, family, depVars, audVars, prvVars, cntVars, vecVars, attVars, uuidCtr, last, ops>>

\* a read that takes a file that is not there for an empty one
OpenReadEmpty(files, name) ==
    IF name \notin DOMAIN files THEN [content |-> <<>>] ELSE [content |-> files[name]]

\* with open(file_path, 'rb') as f: content = f.read()
OpenRead(files, name) ==
    IF name \notin DOMAIN files THEN [exc |-> "FileNotFoundError"]
    ELSE [content |-> files[name]]

\* LocalAttachmentStorage.retrieve_file: open(file_path, 'rb'), which raises
\* FileNotFoundError for a file unlinked since the check, f.read() and the return
CLocalRetrieveRead(c) ==
    /\ pc[c] = "file_read"
    /\ LET files     == contentFiles[loc[c].key[1]]
           file_meta == loc[c].data[1]
           got       == OpenRead(files, loc[c].name)
       IN loc' = [loc EXCEPT ![c].ret =
                    IF "exc" \in DOMAIN got THEN got
                    ELSE [content |-> got.content, mime_type |-> file_meta.mime_type,
                          original_filename |-> file_meta.original_filename]]
    /\ pc' = [pc EXCEPT ![c] = "idle"]
    /\ UNCHANGED <<backend, family, depVars, audVars, prvVars, cntVars, vecVars, attVars, uuidCtr, last, ops>>

\* LocalAttachmentStorage.list_files: one read of metadata.json
CLocalListFiles(c, p, ct) ==
    /\ backend = "local" /\ family = "attachment"
    /\ pc[c] = "idle" /\ ops < MaxOps
    /\ loc' = [loc EXCEPT ![c] =
                 [Frame("list_files", <<p, ct>>, None) EXCEPT
                    !.call = ops + 1, !.ret = LocalListFiles(metaFile[p], ct)]]
    /\ ops' = ops + 1
    /\ UNCHANGED <<backend, family, depVars, audVars, prvVars, cntVars, vecVars, attVars, uuidCtr, last, pc>>

\* PostgreSQLAttachmentStorage.store_file: one INSERT
CPgStoreFile(c, k, fl) ==
    /\ backend = "postgresql" /\ family = "attachment"
    /\ pc[c] = "idle" /\ ops < MaxOps
    /\ LET file_id == Uuid4(uuidCtr + 1) IN
       /\ attTable' = SqlInsertAttachment(attTable, attSerial + 1, file_id, k[1], k[2], k[3],
                                          fl.filename, fl.mime_type, Len(fl.content),
                                          B64Encode(fl.content))
       /\ loc' = [loc EXCEPT ![c] =
                    [Frame("store_file", k, fl) EXCEPT !.id = file_id, !.ret = file_id]]
    /\ attSerial' = attSerial + 1
    /\ uuidCtr' = uuidCtr + 1
    /\ ops' = ops + 1
    /\ UNCHANGED <<backend, family, depVars, audVars, prvVars, cntVars, vecVars, contentFiles, metaFile, issued, last, pc>>

\* PostgreSQLAttachmentStorage.retrieve_file: one SELECT, record and content in one row
CPgRetrieveFile(c, p, n) ==
    /\ backend = "postgresql" /\ family = "attachment"
    /\ pc[c] = "idle" /\ ops < MaxOps
    /\ loc' = [loc EXCEPT ![c] =
                 [Frame("retrieve_file", <<p, Uuid4(n)>>, None) EXCEPT
                    !.call = ops + 1, !.ret = PgRetrieveFile(attTable, p, Uuid4(n))]]
    /\ ops' = ops + 1
    /\ UNCHANGED <<backend, family, depVars, audVars, prvVars, cntVars, vecVars, attVars, uuidCtr, last, pc>>

\* PostgreSQLAttachmentStorage.delete_file: the SELECT that looks for the row
CPgDeleteFileSelect(c, p, n) ==
    /\ backend = "postgresql" /\ family = "attachment"
    /\ pc[c] = "idle" /\ ops < MaxOps
    /\ IF Len(SqlSelectAttachment(attTable, p, Uuid4(n))) = 0
       THEN /\ loc' = [loc EXCEPT ![c] =
                         [Frame("delete_file", <<p, Uuid4(n)>>, None) EXCEPT !.ret = FALSE]]
            /\ pc' = pc
       ELSE /\ loc' = [loc EXCEPT ![c] =
                         [Frame("delete_file", <<p, Uuid4(n)>>, None) EXCEPT
                            !.id = Uuid4(n)]]
            /\ pc' = [pc EXCEPT ![c] = "pg_file_delete"]
    /\ ops' = ops + 1
    /\ UNCHANGED <<backend, family, depVars, audVars, prvVars, cntVars, vecVars, attVars, uuidCtr, last>>

\* PostgreSQLAttachmentStorage.delete_file: the DELETE statement, and the return
CPgDeleteFileExecute(c) ==
    /\ pc[c] = "pg_file_delete"
    /\ attTable' = SqlDeleteAttachment(attTable, loc[c].key[1], loc[c].key[2])
    /\ loc' = [loc EXCEPT ![c].ret = TRUE]
    /\ pc' = [pc EXCEPT ![c] = "idle"]
    /\ UNCHANGED <<backend, family, depVars, audVars, prvVars, cntVars, vecVars, contentFiles, metaFile, attSerial,
                   issued, uuidCtr, last, ops>>

(***************************************************************************)
(* Connection provider: SQLiteDatabase, PostgreSQLDatabase and the legacy  *)
(* mode of DB.  A call takes the instance's lock, obtains a connection,    *)
(* runs its statement (once per row for executemany), commits unless it is *)
(* a query, hands a pooled connection back and leaves the lock.             *)
(***************************************************************************)
ProviderOps == {"execute", "executemany", "query"}

\* rows in the batch of an executemany call
BatchSizes == {1, 2}

\* the lock handed to whoever asks for it
CanAcquireAlways(c) == TRUE

\* with self._lock: the RLock is free or already held by the caller's own thread
CanAcquire(c) == lockOwner \in {"none", c}

\* PostgreSQLDatabase takes its connections from the pool; the other two open one per call
Pooled == backend = "postgresql"

\* where a call goes when its with-blocks are left normally: through the finally
\* clause of get_connection for a pooled connection, else straight out of the lock
Finally(pooled) == IF pooled THEN "putconn" ELSE "unlock"

\* an exception that bypasses the finally clause
SkipFinally(pooled) == "unlock"

\* where a call goes when its statement or commit raised: the same way
AfterRaise(pooled) == Finally(pooled)

\* if conn: self._pool.putconn(conn)
ReturnConn(pool, conn) == IF conn = "" THEN pool ELSE pool \ {conn}

\* the call is at its statement or between its statement and its commit
InStatement(c) == pc[c] \in {"statement", "commit"}

\* a caller enters execute / executemany / query and arrives at the lock
PCall(c, op, n) ==
    /\ family = "provider" /\ ops < MaxOps
    /\ pc[c] = "idle"
    /\ (op # "executemany") => n = 1
    /\ pc' = [pc EXCEPT ![c] = "lock"]
    /\ loc' = [loc EXCEPT ![c] = [Frame(op, <<"", "", "">>, n) EXCEPT !.call = ops + 1]]
    /\ ops' = ops + 1
    /\ UNCHANGED <<backend, family, depVars, audVars, prvVars, cntVars, vecVars, attVars, uuidCtr, last>>

\* with self._lock
PLock(c) ==
    /\ family = "provider" /\ pc[c] = "lock"
    /\ CanAcquire(c)
    /\ lockOwner' = c
    /\ pc' = [pc EXCEPT ![c] = "getconn"]
    /\ UNCHANGED <<backend, family, depVars, audVars, pending, checkedOut, provRows, cntVars, vecVars, attVars, uuidCtr, last, loc, ops>>

\* self._pool.getconn() / sqlite3.connect(): a connection, or an exception with none held
PGetConn(c) ==
    /\ family = "provider" /\ pc[c] = "getconn"
    /\ \/ /\ checkedOut' = IF Pooled THEN checkedOut \cup {c} ELSE checkedOut
          /\ loc' = [loc EXCEPT ![c].conn = IF Pooled THEN c ELSE ""]
          /\ pc' = [pc EXCEPT ![c] = "statement"]
       \/ /\ loc' = [loc EXCEPT ![c].exc = "OperationalError", ![c].name = <<"getconn">>]
          /\ pc' = [pc EXCEPT ![c] = AfterRaise(Pooled)]
          /\ UNCHANGED checkedOut
    /\ UNCHANGED <<backend, family, depVars, audVars, pending, lockOwner, provRows, cntVars, vecVars, attVars, uuidCtr, last, ops>>

\* cur.execute(sql, params) / cur.executemany(sql, rows): the statement runs for the
\* next row of the batch, or raises
PStatement(c) ==
    /\ family = "provider" /\ pc[c] = "statement"
    /\ \/ /\ provRows' = Append(provRows, [call |-> loc[c].call, caller |-> c, op |-> loc[c].op])
          /\ loc' = [loc EXCEPT ![c].done = @ + 1]
          /\ pc' = [pc EXCEPT ![c] =
                       IF loc[c].done + 1 < loc[c].arg THEN "statement"
                       ELSE IF loc[c].op = "query" THEN Finally(Pooled) ELSE "commit"]
       \/ /\ loc' = [loc EXCEPT ![c].exc = "DatabaseError", ![c].name = <<"statement">>]
          /\ pc' = [pc EXCEPT ![c] = AfterRaise(Pooled)]
          /\ UNCHANGED provRows
    /\ UNCHANGED <<backend, family, depVars, audVars, pending, lockOwner, checkedOut, cntVars, vecVars, attVars, uuidCtr, last, ops>>

\* conn.commit(), which may raise as well
PCommit(c) ==
    /\ family = "provider" /\ pc[c] = "commit"
    /\ \/ /\ pc' = [pc EXCEPT ![c] = Finally(Pooled)]
          /\ UNCHANGED loc
       \/ /\ loc' = [loc EXCEPT ![c].exc = "DatabaseError", ![c].name = <<"commit">>]
          /\ pc' = [pc EXCEPT ![c] = AfterRaise(Pooled)]
    /\ UNCHANGED <<backend, family, depVars, audVars, prvVars, cntVars, vecVars, attVars, uuidCtr, last, ops>>

\* finally: if conn: self._pool.putconn(conn)
PPutConn(c) ==
    /\ family = "provider" /\ pc[c] = "putconn"
    /\ checkedOut' = ReturnConn(checkedOut, loc[c].conn)
    /\ loc' = [loc EXCEPT ![c].conn = ""]
    /\ pc' = [pc EXCEPT ![c] = "unlock"]
    /\ UNCHANGED <<backend, family, depVars, audVars, pending, lockOwner, provRows, cntVars, vecVars, attVars, uuidCtr, last, ops>>

\* the with-block of the lock is left and the call returns or raises
PUnlock(c) ==
    /\ family = "provider" /\ pc[c] = "unlock"
    /\ lockOwner' = IF lockOwner = c THEN "none" ELSE lockOwner
    /\ last' = [exc |-> loc[c].exc, op |-> loc[c].op, key |-> <<c>>, arg |-> loc[c].arg,
                ret |-> None, stage |-> loc[c].name]
    /\ loc' = [loc EXCEPT ![c] = Idle]
    /\ pc' = [pc EXCEPT ![c] = "idle"]
    /\ UNCHANGED <<backend, family, depVars, audVars, pending, checkedOut, provRows, cntVars, vecVars, attVars, uuidCtr, ops>>

(***************************************************************************)
(* Connection provider, one caller: the transaction of a call              *)
(***************************************************************************)
\* the rows a call writes: row k of the batch of call number call
BatchRows(call, n) == [k \in 1..n |-> [call |-> call, row |-> k]]

\* how a call can go: every statement and the commit succeed (0), or the statement of
\* row k raises, or the commit raises (n + 1)
Failures(n) == 0..(n + 1)

\* the rows written on the connection when the call leaves its with-blocks
Written(call, n, fails) ==
    IF fails = 0 \/ fails = n + 1 THEN BatchRows(call, n) ELSE BatchRows(call, fails - 1)

\* the pool takes a connection back as it is, its transaction left open
PoolPutOpen(rows) == rows

\* ThreadedConnectionPool.putconn: a connection that is inside a transaction is rolled
\* back before it goes back to the pool
PoolPut(rows) == <<>>

\* what a statement on the provider's connection sees: the committed rows and those
\* of the connection's own open transaction
Visible == provRows \o pending

\* SQLiteDatabase.execute / executemany and the legacy mode of DB: a connection of its
\* own for the call; the with-block of the connection rolls back when the statement
\* or the commit raised
SqliteWrite(call, n, fails) ==
    [committed |-> IF fails = 0 THEN provRows \o BatchRows(call, n) ELSE provRows,
     open      |-> pending,
     exc       |-> IF fails = 0 THEN "" ELSE IF fails = n + 1 THEN "OperationalError"
                   ELSE "IntegrityError"]

\* PostgreSQLDatabase.execute / executemany: the pooled connection, on which commit
\* makes everything of the open transaction durable; the finally clause of
\* get_connection hands the connection back
PostgresWrite(call, n, fails) ==
    LET open == pending \o Written(call, n, fails) IN
    [committed |-> IF fails = 0 THEN provRows \o open ELSE provRows,
     open      |-> IF fails = 0 THEN PoolPut(<<>>) ELSE PoolPut(open),
     exc       |-> IF fails = 0 THEN "" ELSE IF fails = n + 1 THEN "OperationalError"
                   ELSE "IntegrityError"]

ProviderWrite(op, n, fails) ==
    /\ family = "batch" /\ ops < MaxOps
    /\ fails \in Failures(n)
    /\ LET out == IF Pooled THEN PostgresWrite(ops + 1, n, fails)
                  ELSE SqliteWrite(ops + 1, n, fails)
       IN  /\ provRows' = out.committed
           /\ pending' = out.open
           /\ last' = [exc |-> out.exc, op |-> op, key |-> <<"", "", "">>, arg |-> n,
                       ret |-> None]
    /\ ops' = ops + 1
    /\ UNCHANGED <<backend, family, depVars, audVars, lockOwner, checkedOut, cntVars, vecVars,
                   attVars, conVars, uuidCtr>>

\* execute(sql, params)
ProviderExecute(fails) == ProviderWrite("execute", 1, fails)

\* executemany(sql, rows)
ProviderExecutemany(n, fails) == ProviderWrite("executemany", n, fails)

\* query(sql, params): the rows the statement sees; no commit; the pooled connection
\* goes back to the pool
ProviderQuery ==
    /\ family = "batch" /\ ops < MaxOps
    /\ last' = [exc |-> "", op |-> "query", key |-> <<"", "", "">>, arg |-> None,
                ret |-> Visible]
    /\ pending' = IF Pooled THEN PoolPut(pending) ELSE pending
    /\ ops' = ops + 1
    /\ UNCHANGED <<backend, family, depVars, audVars, lockOwner, checkedOut, provRows, cntVars,
                   vecVars, attVars, conVars, uuidCtr>>

(***************************************************************************)
(* One SQLite database opened twice: DB(path), the legacy mode, and        *)
(* DB(backend='sqlite', path=path), the interface mode                     *)
(***************************************************************************)
Modes == {"legacy", "sqlite"}

\* the columns of the sessions table, in the order of the table
SessionColumns ==
    <<"id", "token_jti", "client_name", "scopes", "issued_at", "expires_at", "ip_lock",
      "disabled">>

\* SELECT statements as the result columns (expression, name) and the id compared in
\* the WHERE clause, if any
Star == [k \in 1..Len(SessionColumns) |-> <<SessionColumns[k], SessionColumns[k]>>]
SelectStatements ==
    { [columns |-> Star, where |-> Some(id)] : id \in SessionIds } \cup
    { [columns |-> Star, where |-> Nothing],
      [columns |-> <<<<"id", "id">>, <<"token_jti", "id">>, <<"disabled", "disabled">>>>,
       where |-> Nothing] }

\* cur.fetchall() with row_factory = sqlite3.Row: each row its column names and values
Fetchall(table, q) ==
    LET hit == SelectSeq(table, LAMBDA r : q.where = Nothing \/ r.id = The(q.where))
    IN  [i \in 1..Len(hit) |->
            [names  |-> [k \in 1..Len(q.columns) |-> q.columns[k][2]],
             values |-> [k \in 1..Len(q.columns) |-> hit[i][q.columns[k][1]]]]]

\* sqlite3.Row.keys() and row[name]: the value of the first column with the name
RowKeys(row) == {row.names[k] : k \in 1..Len(row.names)}
RowGetItem(row, name) ==
    LET k == CHOOSE k \in 1..Len(row.names) :
                 /\ row.names[k] = name
                 /\ \A j \in 1..(k - 1) : row.names[j] # name
    IN  row.values[k]

\* dict(zip(row.keys(), tuple(row))): of two columns with one name the last one stays
DictOfRowByPosition(row) ==
    [name \in RowKeys(row) |->
        LET k == CHOOSE k \in 1..Len(row.names) :
                     /\ row.names[k] = name
                     /\ \A j \in (k + 1)..Len(row.names) : row.names[j] # name
        IN  row.values[k]]

\* dict(row): the keys of the row, each with row[key]
DictOfRow(row) == [name \in RowKeys(row) |-> RowGetItem(row, name)]

\* DictRow(data), its keys() and its __getitem__ with a name
DictRow(data) == [data |-> data]
DictRowKeys(dr) == DOMAIN dr.data
DictRowGetItem(dr, name) == dr.data[name]

\* SQLiteDatabase.query: [dict(row) for row in rows]
InterfaceQuery(table, q) ==
    LET rows == Fetchall(table, q) IN [i \in 1..Len(rows) |-> DictOfRow(rows[i])]

\* DB.query: the rows of the cursor in legacy mode, DictRow of each dict of the
\* interface in interface mode
Query(mode, table, q) ==
    IF mode = "legacy" THEN Fetchall(table, q)
    ELSE LET results == InterfaceQuery(table, q)
         IN  [i \in 1..Len(results) |-> DictRow(results[i])]

\* c.executemany(sql, rows) inside the with-block of the connection: the rows one by
\* one, and the rollback of all of them when one fails
RECURSIVE InsertAll(_, _, _)
InsertAll(out, rows, i) ==
    IF i > Len(rows) \/ out.exc # "" THEN out
    ELSE InsertAll(SqlInsertSession(out.table, rows[i]), rows, i + 1)

SqlInsertSessions(table, rows) ==
    LET out == InsertAll(Done(table), rows, 1)
    IN  IF out.exc # "" THEN Raised(out.exc, table) ELSE out

\* DB.execute and DB.executemany with the INSERT of create_session: the legacy mode
\* runs the statement on its own connection, the interface mode hands it to
\* SQLiteDatabase, which does the same
DbExecuteOut(mode, table, s) ==
    IF mode = "legacy" THEN SqlInsertSession(table, s) ELSE SqlInsertSession(table, s)

DbExecutemanyOut(mode, table, rows) ==
    IF mode = "legacy" THEN SqlInsertSessions(table, rows) ELSE SqlInsertSessions(table, rows)

DbExecute(mode, s) ==
    /\ family = "rows" /\ ops < MaxOps
    /\ LET out == DbExecuteOut(mode, sessions, s) IN
       /\ sessions' = out.table
       /\ last' = [exc |-> out.exc, op |-> "execute", key |-> <<mode>>, arg |-> s, ret |-> None]
    /\ ops' = ops + 1
    /\ UNCHANGED <<backend, family, depVars, traces, metaColumn, prvVars, cntVars, vecVars,
                   attVars, conVars, uuidCtr>>

DbExecutemany(mode, rows) ==
    /\ family = "rows" /\ ops < MaxOps
    /\ LET out == DbExecutemanyOut(mode, sessions, rows) IN
       /\ sessions' = out.table
       /\ last' = [exc |-> out.exc, op |-> "executemany", key |-> <<mode>>, arg |-> rows,
                   ret |-> None]
    /\ ops' = ops + 1
    /\ UNCHANGED <<backend, family, depVars, traces, metaColumn, prvVars, cntVars, vecVars,
                   attVars, conVars, uuidCtr>>

DbQuery(mode, q) ==
    /\ family = "rows" /\ ops < MaxOps
    /\ last' = [exc |-> "", op |-> "query", key |-> <<mode>>, arg |-> q,
                ret |-> Query(mode, sessions, q)]
    /\ ops' = ops + 1
    /\ UNCHANGED <<backend, family, depVars, audVars, prvVars, cntVars, vecVars, attVars,
                   conVars, uuidCtr>>

(***************************************************************************)
(* Construction: the providers, the audit store and the storage factories  *)
(***************************************************************************)
EnvNames  == {"DB_BACKEND", "VECTOR_STORAGE", "ATTACHMENT_STORAGE"}
Unset     == "<unset>"
EnvValues == {"postgresql", "local", "SQLite"}
Engines   == {"sqlite", "postgresql"}

\* os.getenv(name, default)
Getenv(name, default) == IF environ[name] = Unset THEN default ELSE environ[name]

\* str.lower() on the values the configuration takes here
Lower(s) == IF s = "SQLite" THEN "sqlite" ELSE s

Built(class, engine, connected) ==
    [exc |-> "", instance |-> [class |-> class, engine |-> engine, connected |-> connected]]
Failed(exc) == [exc |-> exc, instance |-> None]

\* SQLiteDatabase.__init__ stores the path and a lock; sqlite3.connect is first called
\* by connect(), inside execute, executemany and query
SQLiteDatabaseInit == Built("SQLiteDatabase", "sqlite", FALSE)

\* ThreadedConnectionPool(minconn=1, ...) opens one connection at once; any exception
\* becomes ConnectionError
InitializePool ==
    IF "postgresql" \in engines THEN Built("PostgreSQLDatabase", "postgresql", TRUE)
    ELSE Failed("ConnectionError")

PostgreSQLDatabaseInit == InitializePool

\* create_database_interface(backend=None, **kwargs); an explicit backend is compared
\* as given, the environment's value lower-cased
CreateDatabaseInterface(b) ==
    LET name == IF b = Nothing THEN Lower(Getenv("DB_BACKEND", "sqlite")) ELSE The(b)
    IN  IF name = "sqlite" THEN SQLiteDatabaseInit
        ELSE IF name = "postgresql" THEN PostgreSQLDatabaseInit
        ELSE Failed("ValueError")

\* DB.__init__(path, backend, **kwargs): the interface mode when a backend or one of
\* host, database, user is given, else the legacy mode, which only demands a path
DBInit(path, b, host) ==
    IF b # Nothing \/ host
    THEN LET r == CreateDatabaseInterface(b)
         IN  IF r.exc # "" THEN r
             ELSE Built("DB", r.instance.engine, r.instance.connected)
    ELSE IF ~path THEN Failed("ValueError")
    ELSE Built("DB", "sqlite", FALSE)

\* the default of each storage factory when neither the argument nor the environment
\* names a backend
DefaultVectorStorage     == "local"
DefaultAttachmentStorage == "local"
DefaultContentStorage    == "postgresql"

\* a factory that lets the environment's value, when one is set, override its argument
CreateVectorStorageEnvFirst(t, db) ==
    LET name == IF environ["VECTOR_STORAGE"] # Unset \/ t = Nothing
                THEN Lower(Getenv("VECTOR_STORAGE", DefaultVectorStorage))
                ELSE The(t)
    IN  IF name = "local" THEN Built("LocalVectorStorage", "local", FALSE)
        ELSE IF name = "postgresql"
             THEN IF db = Nothing THEN Failed("ValueError")
                  ELSE Built("PostgreSQLVectorStorage", The(db).engine, The(db).connected)
        ELSE Failed("ValueError")

\* create_vector_storage(storage_type=None, **kwargs)
CreateVectorStorage(t, db) ==
    LET name == IF t = Nothing THEN Lower(Getenv("VECTOR_STORAGE", DefaultVectorStorage))
                ELSE The(t)
    IN  IF name = "local" THEN Built("LocalVectorStorage", "local", FALSE)
        ELSE IF name = "postgresql"
             THEN IF db = Nothing THEN Failed("ValueError")
                  ELSE Built("PostgreSQLVectorStorage", The(db).engine, The(db).connected)
        ELSE Failed("ValueError")

\* create_attachment_storage(storage_type=None, **kwargs)
CreateAttachmentStorage(t, db) ==
    LET name == IF t = Nothing
                THEN Lower(Getenv("ATTACHMENT_STORAGE", DefaultAttachmentStorage))
                ELSE The(t)
    IN  IF name = "local" THEN Built("LocalAttachmentStorage", "local", FALSE)
        ELSE IF name = "postgresql"
             THEN IF db = Nothing THEN Failed("ValueError")
                  ELSE Built("PostgreSQLAttachmentStorage", The(db).engine, The(db).connected)
        ELSE Failed("ValueError")

\* create_content_storage(storage_type=None, **kwargs): it reads DB_BACKEND and knows
\* one backend only
CreateContentStorage(t, db) ==
    LET name == IF t = Nothing THEN Lower(Getenv("DB_BACKEND", DefaultContentStorage))
                ELSE The(t)
    IN  IF name = "postgresql"
        THEN IF db = Nothing THEN Failed("ValueError")
             ELSE Built("PostgreSQLContentStorage", The(db).engine, The(db).connected)
        ELSE Failed("ValueError")

\* the first execute or query on a provider: connect() or the pooled connection
\* reaches the engine, or the driver raises its OperationalError
FirstUse(inst) == IF inst.engine \in engines THEN "" ELSE "OperationalError"

BackendArgs == {Nothing, Some("sqlite"), Some("postgresql"), Some("local")}
Factories   == {"create_database_interface", "create_vector_storage",
                "create_attachment_storage", "create_content_storage"}
Providers   == {"SQLiteDatabase", "PostgreSQLDatabase", "DB"}
Constructors == Providers \cup {"create_database_interface"}

\* os.environ[name] = value, or del os.environ[name]
Setenv(name, value) ==
    /\ family = "deploy"
    /\ environ[name] # value
    /\ environ' = [environ EXCEPT ![name] = value]
    /\ UNCHANGED <<backend, family, engines, instances, audVars, prvVars, cntVars, vecVars,
                   attVars, conVars, uuidCtr, last, ops>>

\* the engine stops or starts accepting connections (the server goes away, the
\* directory of the database file is removed or restored)
EngineFlips(e) ==
    /\ family = "deploy"
    /\ engines' = IF e \in engines THEN engines \ {e} ELSE engines \cup {e}
    /\ UNCHANGED <<backend, family, environ, instances, audVars, prvVars, cntVars, vecVars,
                   attVars, conVars, uuidCtr, last, ops>>

Constructed(op, arg, r) ==
    /\ family = "deploy" /\ ops < MaxOps
    /\ last' = [exc |-> r.exc, op |-> op, key |-> <<"", "", "">>, arg |-> arg,
                ret |-> r.instance]
    /\ instances' = IF r.exc = "" /\ r.instance.class \in Providers
                    THEN instances \cup {r.instance} ELSE instances
    /\ ops' = ops + 1
    /\ UNCHANGED <<backend, family, environ, engines, audVars, prvVars, cntVars, vecVars,
                   attVars, conVars, uuidCtr>>

NoArgs(b) == [backend |-> b, db_interface |-> Nothing, path |-> FALSE, host |-> FALSE]

NewSQLiteDatabase ==
    Constructed("SQLiteDatabase", [NoArgs(Nothing) EXCEPT !.path = TRUE], SQLiteDatabaseInit)

NewPostgreSQLDatabase ==
    Constructed("PostgreSQLDatabase", [NoArgs(Nothing) EXCEPT !.host = TRUE],
                PostgreSQLDatabaseInit)

NewDB(path, b, host) ==
    Constructed("DB", [NoArgs(b) EXCEPT !.path = path, !.host = host], DBInit(path, b, host))

CreateDatabaseInterfaceCall(b) ==
    Constructed("create_database_interface", NoArgs(b), CreateDatabaseInterface(b))

CreateVectorStorageCall(t, db) ==
    Constructed("create_vector_storage", [NoArgs(t) EXCEPT !.db_interface = db],
                CreateVectorStorage(t, db))

CreateAttachmentStorageCall(t, db) ==
    Constructed("create_attachment_storage", [NoArgs(t) EXCEPT !.db_interface = db],
                CreateAttachmentStorage(t, db))

CreateContentStorageCall(t, db) ==
    Constructed("create_content_storage", [NoArgs(t) EXCEPT !.db_interface = db],
                CreateContentStorage(t, db))

\* the first statement run through a provider the program holds
FirstUseCall(inst) ==
    /\ family = "deploy" /\ ops < MaxOps
    /\ inst \in instances
    /\ last' = [exc |-> FirstUse(inst), op |-> "execute", key |-> <<"", "", "">>,
                arg |-> inst, ret |-> None]
    /\ ops' = ops + 1
    /\ UNCHANGED <<backend, family, depVars, audVars, prvVars, cntVars, vecVars, attVars,
                   conVars, uuidCtr>>

(***************************************************************************)
(* Specification of the stores, one caller                                *)
(***************************************************************************)
NoCall == [exc |-> "", op |-> "none", key |-> <<"", "", "">>, arg |-> None, ret |-> None]

\* the stores after construction, before any call
Fresh ==
    /\ environ = [v \in EnvNames |-> Unset]
    /\ engines = Engines
    /\ instances = {}
    /\ sessions = <<>>
    /\ lockOwner = "none"
    /\ checkedOut = {}
    /\ provRows = <<>>
    /\ pending = <<>>
    /\ faqs = <<>>
    /\ kb_articles = <<>>
    /\ clock = 0
    /\ projects = <<>>
    /\ contentFiles = [p \in Projects |-> <<>>]
    /\ metaFile = [p \in Projects |-> <<>>]
    /\ attTable = <<>>
    /\ attSerial = 0
    /\ issued = <<>>
    /\ embFile = [p \in Projects |-> <<>>]
    /\ vecTable = <<>>
    /\ vecSerial = 0
    /\ uuidCtr = 0
    /\ last = NoCall
    /\ ops = 0
    /\ pc = [c \in Callers |-> "idle"]
    /\ loc = [c \in Callers |-> Idle]

Empty == Fresh /\ traces = <<>>

Init ==
    /\ backend \in {"local", "postgresql"}
    /\ family \in {"vector", "attachment"}
    /\ metaColumn = FALSE
    /\ Empty

Next ==
    \/ \E k \in Keys, pl \in Payloads : LocalStoreEmbedding(k, pl)
    \/ \E k \in Keys : LocalDeleteEmbedding(k)
    \/ \E p \in Projects, ct \in ContentTypes \cup {""} : LocalGetEmbeddingsCall(p, ct)
    \/ \E k \in Keys, pl \in Payloads : PgStoreEmbedding(k, pl)
    \/ \E k \in Keys : PgDeleteEmbedding(k)
    \/ \E p \in Projects, ct \in ContentTypes \cup {""} : PgGetEmbeddingsCall(p, ct)
    \/ \E k \in FileKeys, fl \in Files : LocalStoreFile(k, fl)
    \/ \E p \in Projects, n \in FileIdNumbers : LocalRetrieveFileCall(p, n)
    \/ \E p \in Projects, n \in FileIdNumbers : LocalDeleteFile(p, n)
    \/ \E p \in Projects, ct \in ContentTypes \cup {""} : LocalListFilesCall(p, ct)
    \/ \E k \in FileKeys, fl \in Files : PgStoreFile(k, fl)
    \/ \E p \in Projects, n \in FileIdNumbers : PgRetrieveFileCall(p, n)
    \/ \E p \in Projects, n \in FileIdNumbers : PgDeleteFile(p, n)
    \/ \E p \in Projects, ct \in ContentTypes \cup {""} : PgListFilesCall(p, ct)

Spec == Init /\ [][Next]_vars

(***************************************************************************)
(* Specification of similarity search: store_embedding and search_similar  *)
(***************************************************************************)
InitSearch == Init /\ family = "vector"

NextSearch ==
    \/ \E k \in SearchKeys, pl \in SearchPayloads : LocalStoreEmbedding(k, pl)
    \/ \E p \in Projects, q \in Queries, n \in Limits, th \in Thresholds :
          LocalSearchSimilarCall(p, q, n, th)
    \/ \E k \in SearchKeys, pl \in SearchPayloads : PgStoreEmbedding(k, pl)
    \/ \E p \in Projects, q \in Queries, n \in Limits, th \in Thresholds :
          PgSearchSimilarCall(p, q, n, th)

SpecSearch == InitSearch /\ [][NextSearch]_vars

(***************************************************************************)
(* Specification of the stores under concurrent callers                    *)
(***************************************************************************)
NextConc ==
    \/ \E c \in Callers, k \in ConcKeys, pl \in ConcPayloads : CLocalStoreLoad(c, k, pl)
    \/ \E c \in Callers, k \in ConcKeys : CLocalDeleteLoad(c, k)
    \/ \E c \in Callers : CSaveEmbeddingsOpen(c)
    \/ \E c \in Callers : CSaveEmbeddingsDump(c)
    \/ \E c \in Callers, p \in Projects : CLocalGetEmbeddings(c, p, "")
    \/ \E c \in Callers, k \in ConcKeys, pl \in ConcPayloads : CPgStoreDelete(c, k, pl)
    \/ \E c \in Callers : CPgStoreInsert(c)
    \/ \E c \in Callers : CPgStoreSelect(c)
    \/ \E c \in Callers, k \in ConcKeys : CPgDeleteSelect(c, k)
    \/ \E c \in Callers : CPgDeleteExecute(c)
    \/ \E c \in Callers, p \in Projects : CPgGetEmbeddings(c, p, "")
    \/ \E c \in Callers, k \in ConcFileKeys, fl \in ConcFiles : CLocalStoreFileWrite(c, k, fl)
    \/ \E c \in Callers : CLocalStoreFileLoad(c)
    \/ \E c \in Callers, p \in Projects, n \in FileIdNumbers : CLocalDeleteFileLoad(c, p, n)
    \/ \E c \in Callers : CLocalDeleteFileUnlink(c)
    \/ \E c \in Callers : CSaveMetadataOpen(c)
    \/ \E c \in Callers : CSaveMetadataDump(c)
    \/ \E c \in Callers, p \in Projects, n \in FileIdNumbers : CLocalRetrieveLoad(c, p, n)
    \/ \E c \in Callers : CLocalRetrieveExists(c)
    \/ \E c \in Callers : CLocalRetrieveRead(c)
    \/ \E c \in Callers, p \in Projects : CLocalListFiles(c, p, "")
    \/ \E c \in Callers, k \in ConcFileKeys, fl \in ConcFiles : CPgStoreFile(c, k, fl)
    \/ \E c \in Callers, p \in Projects, n \in FileIdNumbers : CPgRetrieveFile(c, p, n)
    \/ \E c \in Callers, p \in Projects, n \in FileIdNumbers : CPgDeleteFileSelect(c, p, n)
    \/ \E c \in Callers : CPgDeleteFileExecute(c)

SpecConc == Init /\ [][NextConc]_vars

(***************************************************************************)
(* Specification of the content store                                      *)
(***************************************************************************)
InitContent ==
    /\ backend = "postgresql"
    /\ family = "content"
    /\ metaColumn = FALSE
    /\ Empty

NextContent ==
    \/ \E p \in Projects, entries \in EntryBatches : UpsertFaqs(p, entries)
    \/ \E p \in Projects, id \in EntryIds : DeleteFaq(p, <<id>>)
    \/ \E p \in Projects, entries \in EntryBatches : UpsertKbArticles(p, entries)
    \/ \E p \in Projects, id \in EntryIds : DeleteKbArticle(p, <<id>>)

SpecContent == InitContent /\ [][NextContent]_vars

(***************************************************************************)
(* Specification of the two vector stores given the same calls             *)
(***************************************************************************)
InitParity ==
    /\ backend = "both"
    /\ family = "vector"
    /\ metaColumn = FALSE
    /\ Empty

NextParity ==
    \/ \E k \in SearchKeys, pl \in SearchPayloads : ParityStoreEmbedding(k, pl)
    \/ \E k \in SearchKeys : ParityDeleteEmbedding(k)
    \/ \E p \in Projects, q \in Queries, limit \in Limits, threshold \in Thresholds :
          ParitySearchSimilar(p, q, limit, threshold)

SpecParity == InitParity /\ [][NextParity]_vars

(***************************************************************************)
(* Specification of the audit store                                        *)
(***************************************************************************)
InitAudit ==
    /\ backend \in {"legacy", "sqlite", "postgresql"}
    /\ family = "audit"
    /\ metaColumn \in BOOLEAN
    /\ Empty

NextAudit ==
    \/ \E s \in Sessions : CreateSession(s)
    \/ \E id \in SessionIds : DisableSession(id)
    \/ \E id \in SessionIds : GetSessionById(id)
    \/ \E jti \in TokenIds : GetSessionByJti(jti)
    \/ \E t \in TraceInputs : InsertTrace(t)
    \/ \E f \in TraceFilters : ListTracesCall(f)
    \/ \E w \in {3, 3600} : MetricsSummaryCall(w, 8)
    \/ \E id \in TraceIds \cup {""}, md \in TraceMetadata : AddTraceMetadata(id, md)

SpecAudit == InitAudit /\ [][NextAudit]_vars

(***************************************************************************)
(* Specification of the connection provider                                *)
(***************************************************************************)
InitProvider ==
    /\ backend \in {"legacy", "sqlite", "postgresql"}
    /\ family = "provider"
    /\ metaColumn = FALSE
    /\ Empty

NextProvider ==
    \/ \E c \in Callers, op \in ProviderOps, n \in BatchSizes : PCall(c, op, n)
    \/ \E c \in Callers : PLock(c)
    \/ \E c \in Callers : PGetConn(c)
    \/ \E c \in Callers : PStatement(c)
    \/ \E c \in Callers : PCommit(c)
    \/ \E c \in Callers : PPutConn(c)
    \/ \E c \in Callers : PUnlock(c)

SpecProvider == InitProvider /\ [][NextProvider]_vars

(***************************************************************************)
(* Specification of construction: environment, engines, constructors       *)
(***************************************************************************)
InitDeploy ==
    /\ backend = "none"
    /\ family = "deploy"
    /\ metaColumn = FALSE
    /\ Empty

DbInterfaces == {Nothing} \cup {Some(i) : i \in instances}

NextDeploy ==
    \/ \E n \in EnvNames, v \in EnvValues \cup {Unset} : Setenv(n, v)
    \/ \E e \in Engines : EngineFlips(e)
    \/ NewSQLiteDatabase
    \/ NewPostgreSQLDatabase
    \/ \E path \in BOOLEAN, b \in BackendArgs, host \in BOOLEAN : NewDB(path, b, host)
    \/ \E b \in BackendArgs : CreateDatabaseInterfaceCall(b)
    \/ \E t \in BackendArgs, db \in DbInterfaces : CreateVectorStorageCall(t, db)
    \/ \E t \in BackendArgs, db \in DbInterfaces : CreateAttachmentStorageCall(t, db)
    \/ \E t \in BackendArgs, db \in DbInterfaces : CreateContentStorageCall(t, db)
    \/ \E inst \in instances : FirstUseCall(inst)

SpecDeploy == InitDeploy /\ [][NextDeploy]_vars

(***************************************************************************)
(* Specification of the PostgreSQL attachments with damaged rows           *)
(***************************************************************************)
InitCorrupt == Init /\ backend = "postgresql" /\ family = "attachment"

Texts == UNION {Corruptions(B64Encode(fl.content)) : fl \in Files}

NextCorrupt ==
    \/ \E k \in FileKeys, fl \in Files : PgStoreFile(k, fl)
    \/ \E p \in Projects, n \in FileIdNumbers : PgRetrieveFileCall(p, n)
    \/ \E p \in Projects, n \in FileIdNumbers : PgDeleteFile(p, n)
    \/ \E p \in Projects, ct \in ContentTypes \cup {""} : PgListFilesCall(p, ct)
    \/ \E i \in 1..MaxOps, text \in Texts : CorruptContent(i, text)

SpecCorrupt == InitCorrupt /\ [][NextCorrupt]_vars

(***************************************************************************)
(* Specification of the content store read back, with damaged metadata     *)
(***************************************************************************)
MetadataBatches == {<<e>> : e \in {x \in Entries : x.id = "e1" \/ x.first = "Q2"}} \cup
                   {<<e, f>> : e \in {x \in Entries : x.first = "Q2" /\ x.id = "e1"},
                               f \in {x \in Entries : x.first # "Q2" <=> x.id = "e1"}}

NextMetadata ==
    \/ \E p \in Projects, entries \in MetadataBatches : UpsertFaqs(p, entries)
    \/ \E p \in Projects, entries \in {b \in MetadataBatches : Len(b) = 1 /\ b[1].id = "e1"} :
          UpsertKbArticles(p, entries)
    \/ \E p \in Projects : GetFaqs(p)
    \/ \E p \in Projects, id \in EntryIds : GetFaqById(p, <<id>>)
    \/ \E p \in Projects : GetKbArticles(p)
    \/ \E p \in Projects, id \in EntryIds : GetKbArticleById(p, <<id>>)
    \/ \E kind \in {"faq", "kb"}, i \in 1..(2 * MaxOps), column \in DamagedMetadata :
          DamageMetadata(kind, i, column)

SpecMetadata == InitContent /\ [][NextMetadata]_vars

(***************************************************************************)
(* Specification of one SQLite database used through both modes of DB      *)
(***************************************************************************)
InitRows ==
    /\ backend = "sqlite"
    /\ family = "rows"
    /\ metaColumn = FALSE
    /\ Empty

SessionBatches ==
    {<<a, b>> : a \in {x \in Sessions : x.id = "s1"}, b \in {x \in Sessions : x.token_jti = "j2"}}

NextRows ==
    \/ \E mode \in Modes, s \in Sessions : DbExecute(mode, s)
    \/ \E mode \in Modes, rows \in SessionBatches : DbExecutemany(mode, rows)
    \/ \E mode \in Modes, q \in SelectStatements : DbQuery(mode, q)

SpecRows == InitRows /\ [][NextRows]_vars

(***************************************************************************)
(* Specification of the projects of the content store                      *)
(***************************************************************************)
NextProjects ==
    \/ \E id \in Projects, name \in ProjectNames, active \in BOOLEAN :
          CreateOrUpdateProject(id, name, active)
    \/ \E id \in Projects : GetProject(id)
    \/ \E active_only \in BOOLEAN : ListProjects(active_only)
    \/ \E id \in Projects : DeleteProject(id)

SpecProjects == InitContent /\ [][NextProjects]_vars

(***************************************************************************)
(* Specification of the transactions of a connection provider              *)
(***************************************************************************)
MaxBatch == 3

InitBatch ==
    /\ backend \in {"legacy", "sqlite", "postgresql"}
    /\ family = "batch"
    /\ metaColumn = FALSE
    /\ Empty

NextBatch ==
    \/ \E fails \in Failures(1) : ProviderExecute(fails)
    \/ \E n \in 1..MaxBatch, fails \in Failures(MaxBatch) : ProviderExecutemany(n, fails)
    \/ ProviderQuery

SpecBatch == InitBatch /\ [][NextBatch]_vars

(***************************************************************************)
(* Specification of the metrics over a trace log                           *)
(***************************************************************************)
\* one path more than metrics_summary reports
MaxPaths == TopPaths + 1

Letters == <<"a", "b", "c", "d", "e", "f", "g", "h", "i", "j", "k", "l">>

\* the order of the paths in a log: MaxPaths or fewer paths, each seen once, and then
\* up to two more requests on paths already seen
PathOrders ==
    UNION { LET once == [i \in 1..k |-> i] IN
            {once} \cup {once \o <<r>> : r \in 1..k}
                   \cup {once \o <<r, s>> : r \in 1..k, s \in 1..k}
          : k \in 0..MaxPaths }

\* the latencies of a log: rising, falling, or with equal values
LatencyOf(kind, i, n) ==
    IF kind = "rising" THEN i ELSE IF kind = "falling" THEN n + 1 - i ELSE (i * 7) % 5

\* the row insert_trace leaves for request number i of a log; every other request
\* is older than the short window
LogRow(order, kind, i) ==
    [id |-> <<"t", i>>, ts |-> IF i % 2 = 0 THEN 2 ELSE 6, method |-> "GET",
     path |-> <<"/", Letters[order[i]]>>, status |-> 200,
     latency_ms |-> LatencyOf(kind, i, Len(order)), ip |-> "10.0.0.1", ua |-> "ua",
     headers_slim |-> "{}", query |-> "", body_sha256 |-> "", token_sub |-> Nothing,
     error |-> Nothing, metadata |-> Nothing]

\* the trace tables insert_trace builds, request by request
TraceLogs ==
    { [i \in 1..Len(order) |-> LogRow(order, kind, i)] :
         order \in PathOrders, kind \in {"rising", "falling", "equal"} }

\* one more request on a path of the log
LogInputs ==
    { [id |-> <<"t", 0>>, ts |-> 6, method |-> "GET", path |-> <<"/", Letters[p]>>,
       status |-> 200, latency_ms |-> 2, ip |-> "10.0.0.1", ua |-> "ua",
       headers_slim |-> "{}", query |-> "", body_sha256 |-> "", token_sub |-> Nothing,
       error |-> Nothing] : p \in {1, MaxPaths} }

\* insert_trace binds its statement on the legacy and sqlite modes only, so a
\* postgresql deployment has no trace
InitMetrics ==
    /\ backend \in {"legacy", "sqlite", "postgresql"}
    /\ family = "audit"
    /\ metaColumn = FALSE
    /\ Fresh
    /\ traces \in IF Qmark THEN TraceLogs ELSE {<<>>}

NextMetrics ==
    \/ \E t \in LogInputs : InsertTrace(t)
    \/ \E w \in {3, 3600} : MetricsSummaryCall(w, 8)

SpecMetrics == InitMetrics /\ [][NextMetrics]_vars

(***************************************************************************)
(* Specification of the stores read and deleted through any project id     *)
(***************************************************************************)
IsolationFiles == {f \in Files : f.filename = <<"test", "txt">>}

NextIsolation ==
    \/ \E k \in SearchKeys, pl \in ConcPayloads : LocalStoreEmbedding(k, pl)
    \/ \E p \in ProjectIds : LocalGetEmbeddingsCall(p, "")
    \/ \E p \in ProjectIds : LocalSearchSimilarCall(p, <<1, 0, 0>>, 5, [num |-> 0, densq |-> 1])
    \/ \E k \in SearchKeys, pl \in ConcPayloads : PgStoreEmbedding(k, pl)
    \/ \E p \in ProjectIds : PgGetEmbeddingsCall(p, "")
    \/ \E p \in ProjectIds : PgSearchSimilarCall(p, <<1, 0, 0>>, 5, [num |-> 0, densq |-> 1])
    \/ \E k \in FileKeys, fl \in IsolationFiles : LocalStoreFile(k, fl)
    \/ \E p \in ProjectIds, n \in FileIdNumbers : LocalRetrieveFileCall(p, n)
    \/ \E p \in ProjectIds, n \in FileIdNumbers : LocalDeleteFile(p, n)
    \/ \E p \in ProjectIds : LocalListFilesCall(p, "")
    \/ \E k \in FileKeys, fl \in IsolationFiles : PgStoreFile(k, fl)
    \/ \E p \in ProjectIds, n \in FileIdNumbers : PgRetrieveFileCall(p, n)
    \/ \E p \in ProjectIds, n \in FileIdNumbers : PgDeleteFile(p, n)
    \/ \E p \in ProjectIds : PgListFilesCall(p, "")

SpecIsolation == Init /\ [][NextIsolation]_vars

(***************************************************************************)
(* Specification of the vector stores: writes and both reads               *)
(***************************************************************************)
NextFrame ==
    \/ \E k \in Keys, pl \in ConcPayloads : LocalStoreEmbedding(k, pl)
    \/ \E p \in Projects, ct \in ContentTypes \cup {""} : LocalGetEmbeddingsCall(p, ct)
    \/ \E p \in Projects, q \in Queries : LocalSearchSimilarCall(p, q, 5, [num |-> 0, densq |-> 1])
    \/ \E k \in Keys, pl \in ConcPayloads : PgStoreEmbedding(k, pl)
    \/ \E p \in Projects, ct \in ContentTypes \cup {""} : PgGetEmbeddingsCall(p, ct)
    \/ \E p \in Projects, q \in Queries : PgSearchSimilarCall(p, q, 5, [num |-> 0, densq |-> 1])

SpecFrame == InitSearch /\ [][NextFrame]_vars

(***************************************************************************)
(* Properties                                                              *)
(***************************************************************************)
\* the live records under a natural key, in the store the caller holds
LiveUnder(k) ==
    IF backend = "local"
    THEN SelectSeq(embFile[k[1]], LAMBDA e : e.content_type = k[2] /\ e.content_id = k[3])
    ELSE SelectSeq(vecTable, LAMBDA r :
             r.project_id = k[1] /\ r.content_type = k[2] /\ r.content_id = k[3])

AllKeys == Projects \X ContentTypes \X ContentIds

\* C1: after any sequence of store_embedding and delete_embedding calls of one
\* caller every natural key has at most one live record, and right after
\* store_embedding(k, ...) returns exactly one record is under k, it carries the
\* call's title, content, vector and metadata, and the returned id is its id.
C1_UpsertKeepsOneLiveRecord ==
    /\ \A k \in AllKeys : Len(LiveUnder(k)) <= 1
    /\ \A p \in Projects : \A i \in 1..Len(embFile[p]) : embFile[p][i].project_id = p
    /\ last.op = "store_embedding" =>
         LET live == LiveUnder(last.key) IN
         /\ Len(live) = 1
         /\ live[1].title = last.arg.title
         /\ live[1].content = last.arg.content
         /\ live[1].embedding = last.arg.embedding
         /\ live[1].metadata = (IF last.arg.metadata.none THEN {} ELSE last.arg.metadata.items)
         /\ last.ret = (IF backend = "local" THEN live[1].id ELSE PyStr(live[1].id))

\* C1 witness: a second store_embedding under the same key replaced the first record
C1_Witness ==
    /\ last.op = "store_embedding"
    /\ ops = 2
    /\ \/ backend = "postgresql" /\ vecSerial = 2 /\ Len(vecTable) = 1
       \/ backend = "local" /\ uuidCtr = 2 /\ Len(embFile["p1"]) + Len(embFile["p2"]) = 1

\* retrieve_file(p, id) evaluated on the store the caller holds
RetrieveNow(p, id) ==
    IF backend = "local" THEN LocalRetrieveFile(metaFile[p], contentFiles[p], id)
    ELSE PgRetrieveFile(attTable, p, id)

\* what retrieve_file has to return for an issued file
Stored(id) ==
    [content |-> issued[id].content, mime_type |-> issued[id].mime_type,
     original_filename |-> issued[id].filename]

\* C2: a file id that store_file returned and that delete_file was not called
\* for since is retrieved with the stored bytes, mime type and original
\* filename, whatever store_file/delete_file calls were made for other ids.
C2_StoreThenRetrieve ==
    /\ \A id \in DOMAIN issued : RetrieveNow(issued[id].project_id, id) = Stored(id)
    /\ (/\ last.op = "retrieve_file"
        /\ last.key[2] \in DOMAIN issued
        /\ issued[last.key[2]].project_id = last.key[1])
       => last.ret = Stored(last.key[2])

\* C2 witness: the first file is retrieved after a second one was stored
C2_Witness ==
    /\ last.op = "retrieve_file"
    /\ last.key[2] = Uuid4(1)
    /\ uuidCtr = 2
    /\ last.key[2] \in DOMAIN issued
    /\ last.ret = Stored(Uuid4(1))

\* the sequence s without the elements that satisfy Gone
Without(s, Gone(_)) == SelectSeq(s, LAMBDA x : ~Gone(x))

\* C10 (delete_embedding): false and nothing changed when the key has no live
\* record; true when it has one, and then that record is gone from
\* get_embeddings while every other record is unchanged.
DeleteEmbeddingStep ==
    LET k    == last'.key
        live == Len(LiveUnder(k)) > 0
    IN  /\ last'.ret = live
        /\ ~live => UNCHANGED <<embFile, vecTable>>
        /\ live =>
             /\ \A ct \in {"", k[2]} :
                  /\ \A i \in 1..Len(LocalGetEmbeddings(embFile'[k[1]], ct)) :
                       LET e == LocalGetEmbeddings(embFile'[k[1]], ct)[i]
                       IN  ~(e.content_type = k[2] /\ e.content_id = k[3])
                  /\ \A i \in 1..Len(PgGetEmbeddings(vecTable', k[1], ct)) :
                       LET e == PgGetEmbeddings(vecTable', k[1], ct)[i]
                       IN  ~(e.content_type = k[2] /\ e.content_id = k[3])
             /\ \A p \in Projects :
                  embFile'[p] = (IF p = k[1]
                                 THEN Without(embFile[p], LAMBDA e :
                                          e.content_type = k[2] /\ e.content_id = k[3])
                                 ELSE embFile[p])
             /\ vecTable' = Without(vecTable, LAMBDA r :
                                r.project_id = k[1] /\ r.content_type = k[2]
                                /\ r.content_id = k[3])

\* C10 (delete_file): false and nothing changed when the file id has no live
\* record in the project; true when it has one, and then list_files no longer
\* returns it, retrieve_file raises not-found, every other record and blob is unchanged.
DeleteFileStep ==
    LET p    == last'.key[1]
        id   == last'.key[2]
        live == IF backend = "local"
                THEN \E i \in 1..Len(metaFile[p]) : metaFile[p][i].file_id = id
                ELSE \E i \in 1..Len(attTable) :
                        attTable[i].project_id = p /\ attTable[i].file_id = id
        name == MetaGet(metaFile[p], id).filename
    IN  /\ last'.ret = live
        /\ ~live => UNCHANGED <<contentFiles, metaFile, attTable>>
        /\ live =>
             /\ \A i \in 1..Len(LocalListFiles(metaFile'[p], "")) :
                  LocalListFiles(metaFile'[p], "")[i].file_id # id
             /\ \A i \in 1..Len(PgListFiles(attTable', p, "")) :
                  PgListFiles(attTable', p, "")[i].file_id # id
             /\ (IF backend = "local"
                 THEN LocalRetrieveFile(metaFile'[p], contentFiles'[p], id)
                 ELSE PgRetrieveFile(attTable', p, id)) = [exc |-> "FileNotFoundError"]
             /\ \A q \in Projects :
                  /\ metaFile'[q] = (IF q = p /\ backend = "local"
                                     THEN Without(metaFile[q], LAMBDA m : m.file_id = id)
                                     ELSE metaFile[q])
                  /\ contentFiles'[q] = (IF q = p /\ backend = "local"
                                         THEN [n \in DOMAIN contentFiles[q] \ {name} |->
                                                  contentFiles[q][n]]
                                         ELSE contentFiles[q])
             /\ attTable' = Without(attTable, LAMBDA r : r.project_id = p /\ r.file_id = id)

C3_LocalAtMostLimit ==
    (last.op = "search_similar" /\ backend = "local") =>
        Len(last.ret) <= Max(last.arg.limit, 0)

\* cosine similarity as the specification defines it: dot product over the
\* product of the magnitudes, 0 when a magnitude is 0
RefSimilarity(q, v) ==
    IF SumSq(q) = 0 \/ SumSq(v) = 0 THEN [num |-> 0, densq |-> 1]
    ELSE [num |-> Dot(q, v), densq |-> SumSq(q) * SumSq(v)]

C4_TieWitness ==
    /\ last.op = "search_similar" /\ backend = "local"
    /\ Len(last.ret) = 2
    /\ SimEq(last.ret[1].similarity, last.ret[2].similarity)
    /\ last.ret[1].content_id = "d1"

\* no call is in progress
Quiescent == \A c \in Callers : pc[c] = "idle"

\* C5: whenever no call is in progress, after any interleaving of store_file and
\* delete_file calls of concurrent callers on LocalAttachmentStorage, the files
\* recorded in a project's metadata.json are exactly the content files stored
\* for the project.
C5_MetadataMatchesContent ==
    (Quiescent /\ backend = "local" /\ family = "attachment") =>
        \A p \in Projects :
            {metaFile[p][i].filename : i \in 1..Len(metaFile[p])} = DOMAIN contentFiles[p]

\* exactly two calls were made, one by each caller, both store_embedding, and both returned
BothStored ==
    /\ Quiescent /\ ops = 2
    /\ \A c \in Callers : loc[c].op = "store_embedding"

\* C6: when two callers run LocalVectorStorage.store_embedding for the same
\* project with different natural keys, both records are in the project's
\* embeddings.json once both calls have returned, in every interleaving.
C6_NoLostUpdate ==
    (/\ BothStored /\ backend = "local"
     /\ loc["c1"].key[1] = loc["c2"].key[1]
     /\ loc["c1"].key # loc["c2"].key)
    => \A c \in Callers : HasKey(embFile[loc[c].key[1]], loc[c].key)

C8_NoGapForReaders ==
    \A c \in Callers :
        loc[c].op = "get_embeddings" =>
            \A k \in loc[c].during : HasKey(loc[c].ret, k)

\* C9: delete_faq and delete_kb_article raise nothing and return true exactly
\* when the call removed a row with that id in that project; they return false
\* when no such row exists.
C9_DeleteReportsRemoval ==
    last.op \in {"delete_faq", "delete_kb_article"} =>
        (last.exc = "" /\ last.ret = (last.removed > 0))

\* C11: given the same store_embedding and delete_embedding calls and the same
\* (project, query vector, limit, threshold), PostgreSQLVectorStorage.search_similar
\* returns the records LocalVectorStorage.search_similar returns, identified by
\* natural key, in the same order.
C11_SearchParity ==
    (last.op = "search_similar" /\ backend = "both") =>
        (last.pg.exc = last.exc /\ NaturalKeys(last.pg.ret) = NaturalKeys(last.ret))

\* C12: when an embedding with vector v is stored in project p,
\* LocalVectorStorage.search_similar(p, v, limit >= 1, threshold <= 1.0) returns
\* an embedding with vector v as its first result, with similarity 1.0.
C12_SelfQueryRanksFirst ==
    (/\ last.op = "search_similar" /\ backend = "local"
     /\ last.arg.limit >= 1
     /\ \E i \in 1..Len(embFile[last.key[1]]) :
           embFile[last.key[1]][i].embedding = last.arg.query)
    => /\ Len(last.ret) >= 1
       /\ last.ret[1].embedding = last.arg.query
       /\ SimEq(last.ret[1].similarity, Sim(1, 1))

\* the elements of a sequence
Range(s) == {s[i] : i \in 1..Len(s)}

\* C13: for any batch given to upsert_faqs or upsert_kb_articles, every entry's
\* id appears in exactly one of the two returned lists (created_ids,
\* updated_ids): each entry is reported once, an id the caller gave is in one
\* of the lists, and no id is in both.
C13_UpsertPartitionsIds ==
    last.op \in {"upsert_faqs", "upsert_kb_articles"} =>
        LET created_ids == last.ret[1]
            updated_ids == last.ret[2]
        IN  /\ Len(created_ids) + Len(updated_ids) = Len(last.arg)
            /\ \A i \in 1..Len(last.arg) :
                  last.arg[i].id # "" =>
                      <<last.arg[i].id>> \in Range(created_ids) \cup Range(updated_ids)
            /\ Range(created_ids) \cap Range(updated_ids) = {}

\* C14: disable_session raises nothing and sets disabled on the sessions with the id,
\* changing nothing else; called again for the same id it raises nothing and leaves
\* the store as the first call left it; for an id no session has it changes nothing
C14_DisableSessionIdempotent ==
    [][(family = "audit" /\ last'.op = "disable_session" /\ ops' = ops + 1) =>
         LET id == last'.key[1] IN
         /\ last'.exc = ""
         /\ Len(sessions') = Len(sessions)
         /\ \A i \in 1..Len(sessions) :
               sessions'[i] = IF sessions[i].id = id
                              THEN [sessions[i] EXCEPT !.disabled = 1] ELSE sessions[i]
         /\ (last.op = "disable_session" /\ last.key[1] = id) => sessions' = sessions
         /\ (\A i \in 1..Len(sessions) : sessions[i].id # id) => sessions' = sessions]_vars

\* the same property where the statements are bound by sqlite3 (legacy and sqlite modes)
C14_DisableSessionIdempotentSqlite ==
    [][(family = "audit" /\ Qmark /\ last'.op = "disable_session" /\ ops' = ops + 1) =>
         LET id == last'.key[1] IN
         /\ last'.exc = ""
         /\ \A i \in 1..Len(sessions) :
               sessions'[i] = IF sessions[i].id = id
                              THEN [sessions[i] EXCEPT !.disabled = 1] ELSE sessions[i]
         /\ (last.op = "disable_session" /\ last.key[1] = id) => sessions' = sessions]_vars

\* C15: over every step of the audit store no session is removed, a stored session
\* keeps all its fields except that disabled may go from 0 to 1 and never back, and
\* a session that a step adds has disabled = 0
C15_SessionsOnlyEverDisabled ==
    [][/\ Len(sessions') >= Len(sessions)
       /\ \A i \in 1..Len(sessions) :
             \/ sessions'[i] = sessions[i]
             \/ /\ sessions[i].disabled = 0
                /\ sessions'[i] = [sessions[i] EXCEPT !.disabled = 1]
       /\ \A i \in (Len(sessions) + 1)..Len(sessions') : sessions'[i].disabled = 0]_vars

\* a session was created next to one that had been disabled before
C15_Witness ==
    /\ last.op = "create_session" /\ last.exc = ""
    /\ \E i \in 1..Len(sessions) : sessions[i].disabled = 1
    /\ \E i \in 1..Len(sessions) : sessions[i].id = last.arg.id /\ sessions[i].disabled = 0

\* C16: create_session with the id of a stored session raises to the caller and
\* leaves every stored session, the disabled flags included, as it was
C16_DuplicateIdRaises ==
    [][(/\ family = "audit" /\ last'.op = "create_session" /\ ops' = ops + 1
        /\ \E i \in 1..Len(sessions) : sessions[i].id = last'.arg.id)
       => (last'.exc # "" /\ sessions' = sessions)]_vars

\* a create_session with the id, but not the token, of a disabled session was refused
C16_Witness ==
    /\ last.op = "create_session" /\ last.exc = "IntegrityError"
    /\ \E i \in 1..Len(sessions) :
          /\ sessions[i].id = last.arg.id
          /\ sessions[i].token_jti # last.arg.token_jti
          /\ sessions[i].disabled = 1

\* C17: on one provider instance no two execute / executemany calls of different
\* callers are at their statement or between statement and commit together, and no
\* statement of another call runs between two statements of one such call
C17_WritesSerialized ==
    family = "provider" =>
        /\ \A c, d \in Callers :
              (/\ c # d
               /\ InStatement(c) /\ loc[c].op \in {"execute", "executemany"}
               /\ InStatement(d) /\ loc[d].op \in {"execute", "executemany"}) => FALSE
        /\ \A i, j, k \in 1..Len(provRows) :
              (/\ i < j /\ j < k
               /\ provRows[i].op \in {"execute", "executemany"}
               /\ provRows[i].call = provRows[k].call)
              => provRows[j].call = provRows[i].call

\* one caller is inside its batch while another write call waits for the lock
C17_Witness ==
    /\ family = "provider"
    /\ \E c, d \in Callers :
          /\ c # d
          /\ pc[c] = "statement" /\ loc[c].op = "executemany" /\ loc[c].done = 1
          /\ pc[d] = "lock" /\ loc[d].op \in {"execute", "executemany"}

\* C18: a PostgreSQLDatabase call has handed its pooled connection back before it
\* returns or raises: no call that is not between getconn and putconn holds one,
\* and with no call in progress no connection is checked out
C18_ConnectionsReturned ==
    (family = "provider" /\ backend = "postgresql") =>
        /\ \A c \in Callers :
              pc[c] \in {"idle", "lock", "getconn", "unlock"} => c \notin checkedOut
        /\ (\A c \in Callers : pc[c] = "idle") => checkedOut = {}

\* no call is in progress and the last one raised from its statement or its commit
C18_Witness ==
    /\ family = "provider" /\ backend = "postgresql"
    /\ \A c \in Callers : pc[c] = "idle"
    /\ last.op \in ProviderOps
    /\ last.exc = "DatabaseError"
    /\ last.stage \in {<<"statement">>, <<"commit">>}

\* the step ends a retrieve_file call of caller c (on either backend)
RetrieveReturns(c) ==
    /\ loc'[c].op = "retrieve_file" /\ pc'[c] = "idle"
    /\ (pc[c] # "idle" \/ (ops' = ops + 1 /\ loc'[c].call = ops'))

BeingDeleted(c, p, file_id) ==
    \E d \in Callers \ {c} :
        /\ pc[d] # "idle" /\ loc[d].op = "delete_file"
        /\ loc[d].key = <<p, file_id>>

\* C20: no list_files or retrieve_file call that runs while another caller's
\* delete_file of a file is in progress finds the metadata record of that file
\* with its content already gone
C20_DeleteLooksAtomic ==
    [][\A c \in Callers :
         /\ (loc'[c].op = "list_files" /\ ops' = ops + 1 /\ loc'[c].call = ops') =>
               \A i \in 1..Len(loc'[c].ret) :
                   BeingDeleted(c, loc'[c].key[1], loc'[c].ret[i].file_id)
                   => loc'[c].ret[i].filename \in DOMAIN contentFiles[loc'[c].key[1]]
         /\ (RetrieveReturns(c) /\ backend = "local" /\ pc[c] # "idle"
             /\ BeingDeleted(c, loc[c].key[1], loc[c].key[2]))
            => loc'[c].ret # [exc |-> "FileNotFoundError"]]_vars

\* the trace satisfies the since, since_seconds, status, ip and has_error filters of f
PassesFilters(r, f) ==
    /\ f.since # Nothing => r.ts >= The(f.since)
    /\ f.since_seconds # Nothing => r.ts >= f.now - The(f.since_seconds)
    /\ f.status # Nothing => r.status = The(f.status)
    /\ f.ip # Nothing => r.ip = The(f.ip)
    /\ f.has_error # Nothing => ((r.error # Nothing) <=> The(f.has_error))

\* C21: list_traces (no path filter, limit >= 0) raises nothing and returns stored
\* traces that pass every supplied filter, newest first, as many as the limit allows,
\* none twice and none left out in favour of an older one; nothing matching gives
\* the empty list
C21_ListTracesFilters ==
    (last.op = "list_traces" /\ last.arg.path = Nothing /\ last.arg.limit >= 0) =>
        /\ last.exc = ""
        /\ LET f    == last.arg
               want == {i \in 1..Len(traces) : PassesFilters(traces[i], f)}
               got  == last.ret
           IN  /\ Len(got) = Min(f.limit, Cardinality(want))
               /\ \A i \in 1..Len(got) : \E j \in want : traces[j] = got[i]
               /\ \A i, j \in 1..Len(got) : i < j =>
                      got[i].ts >= got[j].ts /\ got[i].id # got[j].id
               /\ \A j \in want : \A i \in 1..Len(got) :
                      traces[j].ts > got[i].ts => \E k \in 1..Len(got) : got[k] = traces[j]

\* the same property where the statements are bound by sqlite3 (legacy and sqlite modes)
C21_ListTracesFiltersSqlite == Qmark => C21_ListTracesFilters

\* p occurs in text as it stands, character for character
Contains(text, p) ==
    \E k \in 1..(Len(text) - Len(p) + 1) : SubSeq(text, k, k + Len(p) - 1) = p

\* C22: every trace that list_traces returns for a path filter p has p in its path
\* as a literal, case-sensitive substring
C22_PathIsLiteralSubstring ==
    (/\ last.op = "list_traces" /\ last.exc = ""
     /\ last.arg.path # Nothing /\ last.arg.path # Some(<<>>))
    => \A i \in 1..Len(last.ret) : Contains(last.ret[i].path, The(last.arg.path))

\* the traces of the window of a metrics_summary call
InWindow(a) == {i \in 1..Len(traces) : traces[i].ts >= a.now - a.window_seconds}

\* how many traces of the window have a status in lo..hi
Tally(a, lo, hi) ==
    Cardinality({i \in InWindow(a) : lo <= traces[i].status /\ traces[i].status <= hi})

\* C23: metrics_summary raises nothing; total counts every trace of the window, the
\* three buckets count the statuses 200-299, 400-499 and 500-599, unauthorized
\* counts the statuses 401
C23_MetricsBuckets ==
    last.op = "metrics_summary" =>
        /\ last.exc = ""
        /\ last.ret.total = Cardinality(InWindow(last.arg))
        /\ last.ret.by_status.c2xx = Tally(last.arg, 200, 299)
        /\ last.ret.by_status.c4xx = Tally(last.arg, 400, 499)
        /\ last.ret.by_status.c5xx = Tally(last.arg, 500, 599)
        /\ last.ret.unauthorized = Tally(last.arg, 401, 401)
        /\ last.ret.by_status.c2xx + last.ret.by_status.c4xx + last.ret.by_status.c5xx
              <= last.ret.total

\* the same property where the statements are bound by sqlite3 (legacy and sqlite modes)
C23_MetricsBucketsSqlite == Qmark => C23_MetricsBuckets

\* C28: add_trace_metadata never raises and is a no-op for an empty trace id; it
\* changes at most the metadata of the trace with the given id; over every step of
\* the audit store the stored traces stay, in their order, with every field but
\* the metadata unchanged
C28_MetadataBestEffort ==
    [][/\ Len(traces') >= Len(traces)
       /\ \A i \in 1..Len(traces) : [traces'[i] EXCEPT !.metadata = Nothing]
                                     = [traces[i] EXCEPT !.metadata = Nothing]
       /\ (family = "audit" /\ last'.op = "add_trace_metadata" /\ ops' = ops + 1) =>
             /\ last'.exc = ""
             /\ Len(traces') = Len(traces)
             /\ \A i \in 1..Len(traces) :
                   traces[i].id # last'.key[1] => traces'[i] = traces[i]
             /\ last'.key[1] = "" => traces' = traces
             /\ ~last'.arg.serializable => traces' = traces
             /\ ~metaColumn => traces' = traces]_vars

\* metadata was attached to one trace while another trace is stored without any
C28_Witness ==
    /\ last.op = "add_trace_metadata"
    /\ \E i, j \in 1..Len(traces) :
          /\ traces[i].id = last.key[1] /\ traces[i].metadata # Nothing
          /\ traces[j].id # last.key[1] /\ traces[j].metadata = Nothing


\* C24: a constructor of a connection provider (PostgreSQLDatabase, SQLiteDatabase,
\* create_database_interface, DB) returns an instance only when its engine accepts a
\* connection at that moment, and fails with ConnectionError otherwise; the only other
\* failure of a constructor is the ValueError for a bad argument
C24_ConstructionFailsFast ==
    [][(family = "deploy" /\ ops' = ops + 1 /\ last'.op \in Constructors) =>
          /\ last'.exc \in {"", "ConnectionError", "ValueError"}
          /\ last'.exc = "" => last'.ret.engine \in engines]_vars

\* C25: with no backend argument, no db_interface and no variable in the environment,
\* each of the four factories returns an instance of an embedded or local backend
C25_ZeroConfigurationRuns ==
    [][(/\ family = "deploy" /\ ops' = ops + 1
        /\ last'.op \in Factories
        /\ last'.arg.backend = Nothing /\ last'.arg.db_interface = Nothing
        /\ \A n \in EnvNames : environ[n] = Unset) =>
          /\ last'.exc = ""
          /\ last'.ret.engine \in {"sqlite", "local"}]_vars

\* C25 for the three factories other than create_content_storage
C25_ZeroConfigurationRunsOthers ==
    [][(/\ family = "deploy" /\ ops' = ops + 1
        /\ last'.op \in Factories \ {"create_content_storage"}
        /\ last'.arg.backend = Nothing /\ last'.arg.db_interface = Nothing
        /\ \A n \in EnvNames : environ[n] = Unset) =>
          /\ last'.exc = ""
          /\ last'.ret.engine \in {"sqlite", "local"}]_vars

\* C24 for PostgreSQLDatabase alone
C24_ConstructionFailsFastPostgreSQL ==
    [][(family = "deploy" /\ ops' = ops + 1 /\ last'.op = "PostgreSQLDatabase") =>
          /\ last'.exc \in {"", "ConnectionError"}
          /\ last'.exc = "" <=> "postgresql" \in engines]_vars

\* the encoded content the row of an issued file holds now
StoredText(id) ==
    LET hit == SelectSeq(attTable, LAMBDA r : r.file_id = id) IN hit[1].file_content_base64

\* C26: retrieve_file of PostgreSQLAttachmentStorage on an issued file whose stored
\* text is no longer the encoding store_file wrote raises, and whenever it returns it
\* returns the bytes that were stored
C26_CorruptContentRaises ==
    [][(/\ backend = "postgresql" /\ family = "attachment"
        /\ ops' = ops + 1 /\ last'.op = "retrieve_file"
        /\ last'.key[2] \in DOMAIN issued
        /\ issued[last'.key[2]].project_id = last'.key[1]) =>
          LET id == last'.key[2] IN
          /\ StoredText(id) # B64Encode(issued[id].content) => last'.ret = [exc |-> "ValueError"]
          /\ "content" \in DOMAIN last'.ret => last'.ret.content = issued[id].content]_vars

\* C26 for the damage that leaves a quad of the text incomplete: the retrieval raises
C26_TruncatedContentRaises ==
    [][(/\ backend = "postgresql" /\ family = "attachment"
        /\ ops' = ops + 1 /\ last'.op = "retrieve_file"
        /\ last'.key[2] \in DOMAIN issued
        /\ issued[last'.key[2]].project_id = last'.key[1]) =>
          LET id   == last'.key[2]
              text == B64Encode(issued[id].content)
          IN  (Len(text) > 0 /\ StoredText(id) = SubSeq(text, 1, Len(text) - 1))
                  => last'.ret = [exc |-> "ValueError"]]_vars

\* the mappings the callers write as metadata, the default of an entry without
\* metadata among them
Mappings == {{}} \cup {The(e.metadata) : e \in {x \in Entries : x.metadata # Nothing}}

\* what a reader has to make of a metadata column: the mapping whose serialization
\* the column holds, and the empty mapping for anything else
Expected(column) ==
    IF \E d \in Mappings : column = Some(JsonDumps(d))
    THEN CHOOSE d \in Mappings : column = Some(JsonDumps(d))
    ELSE {}

ContentTable(op) ==
    IF op \in {"get_faqs", "get_faq_by_id", "upsert_faqs"} THEN faqs ELSE kb_articles

\* C27: get_faqs, get_faq_by_id, get_kb_articles and get_kb_article_by_id raise
\* nothing and return each row with the mapping its metadata column serializes, the
\* empty mapping when the column is NULL, empty or does not parse; after upsert_faqs /
\* upsert_kb_articles the entry with a given id is read back with the mapping the
\* caller gave (the empty mapping when it gave none)
C27_MetadataDegradesToEmpty ==
    [][(family = "content" /\ ops' = ops + 1) =>
          /\ last'.op \in {"get_faqs", "get_kb_articles"} =>
                LET rows == SelectSeq(ContentTable(last'.op),
                                      LAMBDA r : r.project_id = last'.key[1])
                IN  /\ last'.exc = ""
                    /\ Len(last'.ret) = Len(rows)
                    /\ \A i \in 1..Len(rows) :
                          last'.ret[i] = [rows[i] EXCEPT !.metadata = Expected(rows[i].metadata)]
          /\ last'.op \in {"get_faq_by_id", "get_kb_article_by_id"} =>
                LET rows == SelectSeq(ContentTable(last'.op),
                                      LAMBDA r : /\ r.project_id = last'.key[1]
                                                 /\ r.id = last'.key[2])
                IN  /\ last'.exc = ""
                    /\ last'.ret = IF Len(rows) = 0 THEN None
                                   ELSE [rows[1] EXCEPT !.metadata = Expected(rows[1].metadata)]
          /\ last'.op \in {"upsert_faqs", "upsert_kb_articles"} =>
                LET table == IF last'.op = "upsert_faqs" THEN faqs' ELSE kb_articles'
                    e     == last'.arg
                IN  \A i \in 1..Len(e) :
                       (e[i].id # "" /\ \A j \in (i + 1)..Len(e) : e[j].id # e[i].id) =>
                          LET read == GetContentById(table, last'.key[1], <<e[i].id>>)
                          IN  /\ read # None
                              /\ read.metadata = IF e[i].metadata = Nothing THEN {}
                                                 ELSE The(e[i].metadata)]_vars

\* C27 witness: get_faqs returned one entry with the mapping that was written and one,
\* whose stored metadata is a text cut short, with the empty mapping
C27_Witness ==
    /\ last.op = "get_faqs"
    /\ \E i, j \in 1..Len(last.ret) :
          /\ last.ret[i].metadata = {<<"source", "web">>, <<"lang", "en">>}
          /\ last.ret[j].metadata = {}
          /\ \E k \in 1..Len(faqs) :
                /\ faqs[k].id = last.ret[j].id /\ faqs[k].project_id = last.key[1]
                /\ faqs[k].metadata = Some(<<"{", "source", ":">>)

\* list_files of the store in use, on given files
ListOf(meta, table, p, ct) ==
    IF backend = "local" THEN LocalListFiles(meta[p], ct) ELSE PgListFiles(table, p, ct)

\* retrieve_file of the store in use, on given files
RetrieveOf(meta, files, table, p, id) ==
    IF backend = "local" THEN LocalRetrieveFile(meta[p], files[p], id)
    ELSE PgRetrieveFile(table, p, id)

\* the records of a listing that carry the file id
WithId(listing, id) == {i \in 1..Len(listing) : listing[i].file_id = id}

C30_LegacyAndInterfaceAgree ==
    [][(family = "rows" /\ ops' = ops + 1) =>
          /\ last'.op = "execute" =>
                \A mode \in Modes :
                   /\ sessions' = DbExecuteOut(mode, sessions, last'.arg).table
                   /\ last'.exc = DbExecuteOut(mode, sessions, last'.arg).exc
          /\ last'.op = "executemany" =>
                \A mode \in Modes :
                   /\ sessions' = DbExecutemanyOut(mode, sessions, last'.arg).table
                   /\ last'.exc = DbExecutemanyOut(mode, sessions, last'.arg).exc
          /\ last'.op = "query" =>
                LET old == Query("legacy", sessions, last'.arg)
                    new == Query("sqlite", sessions, last'.arg)
                IN  /\ last'.exc = ""
                    /\ last'.ret = IF last'.key[1] = "legacy" THEN old ELSE new
                    /\ Len(old) = Len(new)
                    /\ \A i \in 1..Len(old) :
                          /\ RowKeys(old[i]) = DictRowKeys(new[i])
                          /\ \A name \in RowKeys(old[i]) :
                                RowGetItem(old[i], name) = DictRowGetItem(new[i], name)]_vars

\* C30 witness: two sessions are stored and a query whose result has two columns of
\* one name was answered in interface mode with both rows
C30_Witness ==
    /\ family = "rows" /\ last.op = "query" /\ last.key[1] = "sqlite"
    /\ Len(sessions) = 2
    /\ Len(last.arg.columns) = 3
    /\ Len(last.ret) = 2
    /\ DictRowGetItem(last.ret[2], "id") = sessions[2].id

\* the ids of the rows of a table or of a listing
IdsOf(rows) == {rows[i].id : i \in 1..Len(rows)}

\* C31: (by induction over the calls) create_or_update_project returns true exactly
\* when no project had the id, and leaves one project with the id, holding the name and
\* the active flag of the call, and every other project as it was; delete_project
\* returns false exactly when no project had the id, removes that project and no
\* other; no other call changes a project; list_projects(active_only=True) returns
\* exactly the existing projects whose flag is true, list_projects(active_only=False)
\* every existing project, each id once
C31_ListProjectsFollowsCalls ==
    [][(family = "content" /\ ops' = ops + 1) =>
          LET id == last'.key[1] IN
          /\ last'.op = "create_or_update_project" =>
                /\ last'.ret = (id \notin IdsOf(projects))
                /\ IdsOf(projects') = IdsOf(projects) \cup {id}
                /\ Cardinality({i \in 1..Len(projects') : projects'[i].id = id}) = 1
                /\ \A i \in 1..Len(projects') :
                      IF projects'[i].id = id
                      THEN /\ projects'[i].active = last'.arg.active
                           /\ projects'[i].name = last'.arg.name
                      ELSE \E j \in 1..Len(projects) : projects[j] = projects'[i]
          /\ last'.op = "delete_project" =>
                /\ last'.ret = (id \in IdsOf(projects))
                /\ IdsOf(projects') = IdsOf(projects) \ {id}
                /\ \A i \in 1..Len(projects') :
                      \E j \in 1..Len(projects) : projects[j] = projects'[i]
          /\ last'.op \notin {"create_or_update_project", "delete_project"} =>
                projects' = projects
          /\ last'.op = "list_projects" =>
                /\ last'.exc = ""
                /\ IdsOf(last'.ret) = {projects[i].id : i \in {k \in 1..Len(projects) :
                                                               ~last'.arg \/ projects[k].active}}
                /\ Cardinality(IdsOf(last'.ret)) = Len(last'.ret)
                /\ \A i \in 1..Len(last'.ret) :
                      \E j \in 1..Len(projects) : projects[j] = last'.ret[i]]_vars

\* C31 witness: a project that was created and then updated to inactive is left out
\* of list_projects(active_only=True)
C31_Witness ==
    /\ family = "content" /\ last.op = "list_projects" /\ last.arg
    /\ Len(projects) = 1
    /\ Len(last.ret) = 0
    /\ ~projects[1].active /\ projects[1].updated_at > projects[1].created_at

\* C32: a write call of a connection provider that returns normally makes every row
\* of its batch visible to the queries after it, and one that raises, at whichever row
\* or at the commit, makes none visible; nothing else ever becomes visible, so no row
\* of a failed batch shows up later; a query returns the visible rows
C32_BatchIsAllOrNothing ==
    [][(family = "batch" /\ ops' = ops + 1) =>
          LET after == provRows' \o pending' IN
          /\ (last'.op \in {"execute", "executemany"} /\ last'.exc = "") =>
                after = Visible \o BatchRows(ops', last'.arg)
          /\ (last'.op \in {"execute", "executemany"} /\ last'.exc # "") =>
                /\ after = Visible
                /\ \A i \in 1..Len(after) : after[i].call # ops'
          /\ last'.op = "query" => (last'.ret = provRows /\ after = Visible)]_vars

\* C32 witness: a batch failed at its last row after one that succeeded, and a query
\* then returned the rows of the first batch only
C32_Witness ==
    /\ family = "batch" /\ backend = "postgresql" /\ last.op = "query" /\ ops = 3
    /\ Len(last.ret) = MaxBatch
    /\ \A i \in 1..Len(last.ret) : last.ret[i].call = 1

\* how many traces of the window have the path p
PathTally(a, p) == Cardinality({i \in InWindow(a) : traces[i].path = p})

\* where in the table the path p is first seen among the traces of the window
FirstSeen(a, p) == CHOOSE i \in InWindow(a) :
                      /\ traces[i].path = p
                      /\ \A j \in InWindow(a) : traces[j].path = p => i <= j

WindowPaths(a) == {traces[i].path : i \in InWindow(a)}

\* C33: the top_paths that metrics_summary returns are (path, count) pairs of distinct
\* paths of the window, ten of them or all the paths when there are fewer; each count
\* is the number of traces of the window with that path; counts never rise along the
\* list, equal counts stand in the order in which their paths were first seen, and
\* no path left out has more traces than a path reported
C33_TopPaths ==
    (last.op = "metrics_summary" /\ last.exc = "") =>
        LET a == last.arg
            T == last.ret.top_paths
        IN  /\ Len(T) = Min(10, Cardinality(WindowPaths(a)))
            /\ \A i \in 1..Len(T) :
                  /\ T[i][1] \in WindowPaths(a)
                  /\ T[i][2] = PathTally(a, T[i][1])
            /\ \A i, j \in 1..Len(T) : i < j =>
                  /\ T[i][1] # T[j][1]
                  /\ T[i][2] >= T[j][2]
                  /\ T[i][2] = T[j][2] => FirstSeen(a, T[i][1]) < FirstSeen(a, T[j][1])
            /\ \A q \in WindowPaths(a) :
                  (\A i \in 1..Len(T) : T[i][1] # q) =>
                      \A i \in 1..Len(T) : PathTally(a, q) <= T[i][2]

\* C33 witness: a window of more than ten paths, of which metrics_summary reported
\* ten, first the one path seen twice although it was seen after others, then paths
\* seen once
C33_Witness ==
    /\ last.op = "metrics_summary" /\ last.exc = ""
    /\ Cardinality(WindowPaths(last.arg)) > 10
    /\ Len(last.ret.top_paths) = 10
    /\ last.ret.top_paths[1][2] = 2 /\ last.ret.top_paths[2][2] = 1
    /\ FirstSeen(last.arg, last.ret.top_paths[1][1]) > 1

\* C34: with n traces in the window, metrics_summary returns no p95_latency_ms when
\* n = 0 and else the latency that stands at the 0-based index k of the window's
\* latencies in ascending order, where k is the whole part of 0.95 * (n - 1): as many
\* as k or fewer latencies of the window are smaller, and more than k are not larger
C34_P95NearestRank ==
    (last.op = "metrics_summary" /\ last.exc = "") =>
        LET W == InWindow(last.arg)
            n == Cardinality(W)
            v == last.ret.p95_latency_ms
        IN  IF n = 0 THEN v = None
            ELSE \E k \in 0..(n - 1) :
                    /\ 100 * k <= 95 * (n - 1) /\ 95 * (n - 1) < 100 * (k + 1)
                    /\ n = 1 => k = 0
                    /\ \E i \in W : traces[i].latency_ms = v
                    /\ Cardinality({i \in W : traces[i].latency_ms < v}) <= k
                    /\ Cardinality({i \in W : traces[i].latency_ms <= v}) > k

\* C34 witness: thirteen traces in the window, neither the largest nor the second
\* largest latency reported: index 11 of 0..12 holds the value after ties
C34_Witness ==
    /\ last.op = "metrics_summary" /\ last.exc = ""
    /\ Cardinality(InWindow(last.arg)) = MaxPaths + 2
    /\ Cardinality({i \in InWindow(last.arg) :
                       traces[i].latency_ms > last.ret.p95_latency_ms}) = 1

\* the store factories, the variable each reads, and the class each builds for a name
StoreFactories == Factories \ {"create_database_interface"}

VariableOf(op) ==
    IF op = "create_vector_storage" THEN "VECTOR_STORAGE"
    ELSE IF op = "create_attachment_storage" THEN "ATTACHMENT_STORAGE"
    ELSE "DB_BACKEND"

ClassOf(op, name) ==
    IF op = "create_database_interface"
    THEN (IF name = "sqlite" THEN "SQLiteDatabase"
          ELSE IF name = "postgresql" THEN "PostgreSQLDatabase" ELSE "")
    ELSE IF op = "create_vector_storage"
    THEN (IF name = "local" THEN "LocalVectorStorage"
          ELSE IF name = "postgresql" THEN "PostgreSQLVectorStorage" ELSE "")
    ELSE IF op = "create_attachment_storage"
    THEN (IF name = "local" THEN "LocalAttachmentStorage"
          ELSE IF name = "postgresql" THEN "PostgreSQLAttachmentStorage" ELSE "")
    ELSE (IF name = "postgresql" THEN "PostgreSQLContentStorage" ELSE "")

\* C35: a factory called with a backend name it does not support, as its argument or
\* as the environment's value when no argument is given, raises ValueError and
\* returns no instance, and so does a store factory asked for the postgresql store
\* without a db_interface; a factory called with a name as its argument builds the
\* class of that name whatever the environment says, and a store factory then never
\* fails when the name is supported and the db_interface it needs is given
C35_FactoriesFailClosed ==
    [][(family = "deploy" /\ ops' = ops + 1 /\ last'.op \in Factories) =>
          LET op   == last'.op
              t    == last'.arg.backend
              db   == last'.arg.db_interface
              fell == last'.exc = "ValueError" /\ last'.ret = None
          IN  /\ (t # Nothing /\ ClassOf(op, The(t)) = "") => fell
              /\ (t = Nothing /\ environ[VariableOf(op)] # Unset
                    /\ ClassOf(op, Lower(environ[VariableOf(op)])) = "") => fell
              /\ (op \in StoreFactories /\ t = Some("postgresql") /\ db = Nothing) => fell
              /\ (t # Nothing /\ last'.exc = "") => last'.ret.class = ClassOf(op, The(t))
              /\ (op \in StoreFactories /\ t # Nothing /\ ClassOf(op, The(t)) # ""
                    /\ (The(t) = "postgresql" => db # Nothing)) => last'.exc = ""
              /\ last'.exc # "" => last'.ret = None]_vars

\* C35 witness: create_vector_storage("local") built the file store although the
\* environment names postgresql
C35_Witness ==
    /\ family = "deploy" /\ last.op = "create_vector_storage"
    /\ last.arg.backend = Some("local") /\ environ["VECTOR_STORAGE"] = "postgresql"
    /\ last.exc = "" /\ last.ret.class = "LocalVectorStorage"

\* the file id is one issued for a project other than q
IssuedElsewhere(q, id) == id \in DOMAIN issued /\ issued[id].project_id # q

\* a step of the stores that keeps the projects apart: through a project id q, a file
\* id issued for another project is not found by retrieve_file, and delete_file
\* returns false for it and leaves every stored file and record as it is;
\* list_files(q), get_embeddings(q) and search_similar(q, ...) return records of
\* project q only
IsolatedStep ==
    (family \in {"vector", "attachment"} /\ ops' = ops + 1) =>
        LET q == last'.key[1] IN
        /\ (last'.op = "retrieve_file" /\ IssuedElsewhere(q, last'.key[2])) =>
              last'.ret = [exc |-> "FileNotFoundError"]
        /\ (last'.op = "delete_file" /\ IssuedElsewhere(q, last'.key[2])) =>
              /\ last'.ret = FALSE
              /\ UNCHANGED <<metaFile, contentFiles, attTable>>
        /\ (last'.op \in {"list_files", "get_embeddings"}
              \/ (last'.op = "search_similar" /\ last'.exc = "")) =>
              \A i \in 1..Len(last'.ret) : last'.ret[i].project_id = q

\* C36: every call of the attachment and vector stores, on the file backend and on
\* the relational one, through any project id, keeps the projects apart: no file or
\* embedding of a project is retrieved, listed, found by a search or deleted through
\* another project id
C36_ProjectIsolation == [][IsolatedStep]_vars

\* the same property on the relational stores, which select by the project id column
C36_ProjectIsolationPostgreSQL == [][backend = "postgresql" => IsolatedStep]_vars

\* the same property for project ids that are plain directory names
C36_ProjectIsolationPlainIds == [][last'.key[1] \in Projects => IsolatedStep]_vars

\* the records of a stored list or table that are not under the natural key k
Others(records, k) ==
    SelectSeq(records, LAMBDA e :
        ~(e.project_id = k[1] /\ e.content_type = k[2] /\ e.content_id = k[3]))

\* what get_embeddings(p) returns on the backend in use
EmbeddingsOf(files, table, p) ==
    IF backend = "local" THEN LocalGetEmbeddings(files[p], "")
    ELSE PgGetEmbeddings(table, p, "")

\* C37: store_embedding under the natural key k leaves every record under another
\* key, in every project, as it was, id, content, vector and metadata, and in the
\* order it had among the others, in the store and in what get_embeddings returns;
\* get_embeddings and search_similar change no stored record
C37_StoreEmbeddingFrame ==
    [][(family = "vector" /\ ops' = ops + 1) =>
          /\ last'.op = "store_embedding" =>
                LET k == last'.key IN
                /\ Others(vecTable', k) = Others(vecTable, k)
                /\ \A p \in Projects :
                      /\ Others(embFile'[p], k) = Others(embFile[p], k)
                      /\ Others(EmbeddingsOf(embFile', vecTable', p), k)
                            = Others(EmbeddingsOf(embFile, vecTable, p), k)
          /\ last'.op \in {"get_embeddings", "search_similar"} =>
                UNCHANGED <<embFile, vecTable>>]_vars

\* C37 witness: the third store_embedding replaced the record of a key while the
\* record of another key of the same project stayed
C37_Witness ==
    /\ family = "vector" /\ last.op = "store_embedding" /\ ops = 3
    /\ Len(EmbeddingsOf(embFile, vecTable, "p1")) = 2
    /\ Len(Others(EmbeddingsOf(embFile, vecTable, "p1"), last.key)) = 1

\* the caller's last call was a delete under the key that has returned true
DeletedUnder(c, op, key) ==
    /\ pc[c] = "idle" /\ loc[c].op = op /\ loc[c].key = key
    /\ loc[c].ret = TRUE

\* how many records were ever stored: embeddings on the store in use, else files
StoredSoFar == IF family = "vector" /\ backend = "postgresql" THEN vecSerial ELSE uuidCtr

\* C38: no more delete calls have returned true for a file id, or for a natural key,
\* than records were stored: two callers whose deletes both returned true for the
\* same file id, or for the same key with one record ever stored, did not each
\* perform a deletion
C38_OneDeleteReturnsTrue ==
    \A c, d \in Callers : c # d =>
        /\ \A p \in Projects, n \in FileIdNumbers :
              ~(DeletedUnder(c, "delete_file", <<p, Uuid4(n)>>)
                  /\ DeletedUnder(d, "delete_file", <<p, Uuid4(n)>>))
        /\ \A k \in ConcKeys :
              (DeletedUnder(c, "delete_embedding", k) /\ DeletedUnder(d, "delete_embedding", k))
                 => StoredSoFar >= 2

=========================================================================
